---- MODULE Spec2Model ----
(***************************************************************************)
(* A model of SimpleRPC: the WebSocket RPC server (RPCServer.handler), the *)
(* per-connection execution context (ClientExecutor) and the wire contract *)
(* between them and the client (serialize / _convert_proxies).             *)
(*                                                                         *)
(* Python values are tagged tuples, <<tag, payload...>>; the tag fixes the *)
(* payload's type.  A mapping (a message, a response) is a record whose    *)
(* DOMAIN is the set of keys present; msg.get(k) is None exactly when k is *)
(* not in the DOMAIN.                                                      *)
(***************************************************************************)
EXTENDS Integers, Sequences, FiniteSets, TLC

\* Bounds of the model.
MaxObjs == 3      \* the executors together store at most this many objects
MaxSends == 4     \* the client sends at most this many requests
MaxProxies == 4   \* the client holds at most this many RPCProxy objects
MaxInstances == 3 \* the client constructs at most this many Connections

Conns == {"c1", "c2"}

(***************************************************************************)
(* The slice of the Python runtime the requests operate on.                *)
(***************************************************************************)
Mod(n) == <<"module", n>>
Fn(n) == <<"function", n>>
\* The bound method obj.__getitem__.
GetitemOf(obj) == <<"function", "__getitem__", obj>>
IntV(n) == <<"int", n>>
StrV(s) == <<"str", s>>
ListV(s) == <<"list", s>>
\* The dict {"__rpc_proxy__": True, "obj_id": k}.
ProxyMarker(k) == <<"dict", "__rpc_proxy__", k>>
\* The dict {"__slice__": True, "start": t[1], "stop": t[2], "step": t[3]}.
SliceMarker(t) == <<"dict", "__slice__", t>>
\* A client-side RPCProxy whose _rpc_obj_id is k.
Proxy(k) == <<"RPCProxy", k>>
\* A tuple, and slice(t[1], t[2], t[3]).
TupleV(s) == <<"tuple", s>>
SliceV(t) == <<"slice", t>>
NoneV == <<"None">>
BoolV(b) == <<"bool", b>>
\* A float, by its literal.
FloatV(lit) == <<"float", lit>>
\* A dict other than the two markers: its <<key, value>> items in insertion
\* order, the keys being strings.
MapV(items) == <<"map", items>>
\* A dict whose keys are not all strings: its <<key, value>> items in
\* insertion order, each key a value: None, a bool, an int, a float or a
\* string.
KeyedV(items) == <<"kmap", items>>
\* A numpy array, by its elements.
ArrayV(elems) == <<"ndarray", elems>>
\* The int 2**64, one more than the largest msgpack encodes.
BigIntV == <<"bigint", "2**64">>
\* The float nan.
NaN == <<"float", "nan">>
\* A list of lists nested deeper than packb's recursion limit, and so
\* deeper than _convert_proxies, which takes two frames a level, can walk
\* under the interpreter's recursion limit; the program leaves that limit
\* at its default.
DeepListV == <<"deeplist", "DEFAULT_RECURSE_LIMIT">>
\* Strings str.encode("utf-8") raises on: a lone surrogate.
Unencodable == {"\\ud800"}

Tag(v) == v[1]

Ok(v) == <<"ok", v>>
Raise(cls) == <<"raise", cls>>
IsOk(r) == r[1] = "ok"

\* Exception classes that derive from BaseException but not from Exception.
BaseOnly == {"SystemExit", "KeyboardInterrupt", "GeneratorExit"}

\* Names bound in builtins.
Builtins == {"abs", "len", "exit", "list", "tuple"}
\* Top-level packages `import` finds; every other name is ModuleNotFoundError.
Importable ==
  {<<"os">>, <<"os", "path">>, <<"builtins">>, <<"json">>, <<"colorsys">>}

\* getattr(obj, attr)
PyGetattr(obj, attr) ==
  CASE obj = Mod("os") /\ attr = "sep" -> Ok(StrV("/"))
    [] obj = Mod("os") /\ attr = "fspath" -> Ok(Fn("fspath"))
    [] obj = StrV("/") /\ attr = "lower" -> Ok(Fn("lower"))
    [] obj = Mod("builtins") /\ attr \in Builtins -> Ok(Fn(attr))
    [] Tag(obj) \in {"str", "list", "tuple"} /\ attr = "__getitem__" ->
         Ok(GetitemOf(obj))
    [] OTHER -> Raise("AttributeError")

\* callable(obj)
PyCallable(obj) == Tag(obj) = "function"

\* The length of a string: the model's strings are "" and single characters.
StrLen(v) == IF v[2] = "" THEN 0 ELSE 1

\* len(v)
PyLen(v) ==
  CASE Tag(v) = "str" -> Ok(IntV(StrLen(v)))
    [] Tag(v) \in {"list", "tuple"} -> Ok(IntV(Len(v[2])))
    [] Tag(v) = "dict" -> Ok(IntV(IF v[2] = "__slice__" THEN 4 ELSE 2))
    [] Tag(v) \in {"map", "ndarray"} -> Ok(IntV(Len(v[2])))
    [] OTHER -> Raise("TypeError")

\* The items iterating over v yields: the characters of a string, the items
\* of a list or tuple, the keys of a dict.
PyIter(v) ==
  CASE Tag(v) = "str" -> Ok(IF v[2] = "" THEN <<>> ELSE <<v>>)
    [] Tag(v) \in {"list", "tuple"} -> Ok(v[2])
    [] Tag(v) = "dict" ->
         Ok(IF v[2] = "__slice__"
            THEN <<StrV("__slice__"), StrV("start"), StrV("stop"), StrV("step")>>
            ELSE <<StrV("__rpc_proxy__"), StrV("obj_id")>>)
    [] Tag(v) = "map" -> Ok([i \in DOMAIN v[2] |-> StrV(v[2][i][1])])
    [] Tag(v) = "ndarray" -> Ok([i \in DOMAIN v[2] |-> IntV(v[2][i])])
    [] OTHER -> Raise("TypeError")

\* list(*args) and tuple(*args)
PyCollect(tag, args, kwargs) ==
  IF DOMAIN kwargs # {} \/ Len(args) > 1 THEN Raise("TypeError")
  ELSE IF Len(args) = 0 THEN Ok(<<tag, <<>>>>)
  ELSE LET items == PyIter(args[1])
       IN IF IsOk(items) THEN Ok(<<tag, items[2]>>) ELSE items

\* A slice bound on a sequence of length n: None is dflt, a negative bound
\* counts from the end.
Bound(b, dflt, n) ==
  IF Tag(b) = "None" THEN dflt
  ELSE IF b[2] < 0 THEN (IF b[2] + n < 0 THEN 0 ELSE b[2] + n)
  ELSE IF b[2] > n THEN n ELSE b[2]

\* obj[start:stop], the step being None.
PySlice(obj, t) ==
  IF Tag(obj) = "str"
  THEN IF Bound(t[1], 0, StrLen(obj)) = 0 /\ Bound(t[2], StrLen(obj), StrLen(obj)) = 1
       THEN Ok(obj) ELSE Ok(StrV(""))
  ELSE LET n == Len(obj[2])
       IN Ok(<<Tag(obj), SubSeq(obj[2], Bound(t[1], 0, n) + 1, Bound(t[2], n, n))>>)

\* obj[key]
PyGetitem(obj, key) ==
  IF Tag(obj) \in {"str", "list", "tuple"}
  THEN LET n == IF Tag(obj) = "str" THEN StrLen(obj) ELSE Len(obj[2])
       IN IF Tag(key) = "slice" THEN PySlice(obj, key[2])
          ELSE IF Tag(key) # "int" THEN Raise("TypeError")
          ELSE IF key[2] >= n \/ key[2] < -n THEN Raise("IndexError")
          ELSE IF Tag(obj) = "str" THEN Ok(obj)
          ELSE Ok(obj[2][IF key[2] < 0 THEN key[2] + n + 1 ELSE key[2] + 1])
  ELSE Raise("TypeError")

\* func(*args, **kwargs); kwargs is a function from keyword names to values.
PyCall(func, args, kwargs) ==
  CASE Len(func) = 3 ->
         IF DOMAIN kwargs # {} \/ Len(args) # 1 THEN Raise("TypeError")
         ELSE PyGetitem(func[3], args[1])
    [] func = Fn("abs") ->
         IF DOMAIN kwargs # {} \/ Len(args) # 1 \/ Tag(args[1]) # "int"
         THEN Raise("TypeError")
         ELSE Ok(IntV(IF args[1][2] < 0 THEN -args[1][2] ELSE args[1][2]))
    [] func = Fn("len") ->
         IF DOMAIN kwargs # {} \/ Len(args) # 1
         THEN Raise("TypeError")
         ELSE PyLen(args[1])
    [] func = Fn("exit") ->
         IF DOMAIN kwargs # {} \/ Len(args) > 1
         THEN Raise("TypeError")
         ELSE Raise("SystemExit")
    [] func = Fn("fspath") ->
         IF Len(args) = 1 /\ DOMAIN kwargs = {}
         THEN (IF Tag(args[1]) = "str" THEN Ok(args[1]) ELSE Raise("TypeError"))
         ELSE IF Len(args) = 0 /\ DOMAIN kwargs = {"path"}
         THEN (IF Tag(kwargs["path"]) = "str" THEN Ok(kwargs["path"])
               ELSE Raise("TypeError"))
         ELSE Raise("TypeError")
    [] func = Fn("list") -> PyCollect("list", args, kwargs)
    [] func = Fn("tuple") -> PyCollect("tuple", args, kwargs)
    [] func = Fn("lower") ->
         IF DOMAIN kwargs # {} \/ Len(args) # 0
         THEN Raise("TypeError")
         ELSE Ok(StrV("/"))
    [] OTHER -> Raise("TypeError")

\* eval(path, globals): a dotted name, given as the sequence of its parts.
RECURSIVE GetattrChain(_, _)
GetattrChain(r, names) ==
  IF ~IsOk(r) \/ names = <<>> THEN r
  ELSE GetattrChain(PyGetattr(r[2], Head(names)), Tail(names))

\* eval(path) against every top-level package of the process, whichever
\* connection imported it.
EvalAnyModule(path, globals) ==
  IF path = <<>> THEN Raise("SyntaxError")
  ELSE LET base == IF <<Head(path)>> \in Importable
                   THEN Ok(Mod(Head(path)))
                   ELSE IF Head(path) \in Builtins THEN Ok(Fn(Head(path)))
                   ELSE Raise("NameError")
       IN GetattrChain(base, Tail(path))

Eval(path, globals) ==
  IF path = <<>> THEN Raise("SyntaxError")
  ELSE LET base == IF Head(path) \in globals /\ Head(path) # "__builtins__"
                   THEN Ok(Mod(Head(path)))
                   ELSE IF Head(path) \in Builtins THEN Ok(Fn(Head(path)))
                   ELSE Raise("NameError")
       IN GetattrChain(base, Tail(path))

(***************************************************************************)
(* common/serialization.py                                                 *)
(***************************************************************************)
\* _convert_proxies with `isinstance(obj, list)`: tuples are not walked.
RECURSIVE ConvertProxiesListsOnly(_)
ConvertProxiesListsOnly(obj) ==
  CASE Tag(obj) = "RPCProxy" -> ProxyMarker(obj[2])
    [] Tag(obj) = "slice" -> SliceMarker(obj[2])
    [] Tag(obj) \in {"map", "kmap"} ->
         <<Tag(obj), [i \in DOMAIN obj[2] |->
                 <<obj[2][i][1], ConvertProxiesListsOnly(obj[2][i][2])>>]>>
    [] Tag(obj) = "list" ->
         ListV([i \in DOMAIN obj[2] |-> ConvertProxiesListsOnly(obj[2][i])])
    [] OTHER -> obj

\* obj holds a list nested too deep to walk.
RECURSIVE HoldsDeep(_)
HoldsDeep(obj) ==
  CASE Tag(obj) = "deeplist" -> TRUE
    [] Tag(obj) \in {"list", "tuple"} ->
         \E i \in DOMAIN obj[2] : HoldsDeep(obj[2][i])
    [] Tag(obj) \in {"map", "kmap"} ->
         \E i \in DOMAIN obj[2] : HoldsDeep(obj[2][i][2])
    [] OTHER -> FALSE

\* _convert_proxies(obj): the converted object, or the RecursionError the
\* walk ends in when it calls itself deeper than the interpreter allows.
RECURSIVE ConvertProxies(_)
ConvertProxies(obj) ==
  IF HoldsDeep(obj) THEN Raise("RecursionError")
  ELSE CASE Tag(obj) = "RPCProxy" -> ProxyMarker(obj[2])
         [] Tag(obj) = "slice" -> SliceMarker(obj[2])
         [] Tag(obj) \in {"map", "kmap"} ->
              <<Tag(obj), [i \in DOMAIN obj[2] |->
                      <<obj[2][i][1], ConvertProxies(obj[2][i][2])>>]>>
         [] Tag(obj) \in {"list", "tuple"} ->
              <<Tag(obj), [i \in DOMAIN obj[2] |-> ConvertProxies(obj[2][i])]>>
         [] OTHER -> obj

\* The messages of the msgpack format, one token per format family:
\* <<"nil">>, <<"true">>, <<"false">>, <<"int", n>>, <<"float64", lit>>,
\* <<"str", s>>, <<"bin", b>>, and the headers <<"array", n>> and
\* <<"map", n>>, which the n items, or the n keys and values in turn,
\* follow.

\* The element of a set of one element.  A result bound as the element of
\* such a set is computed once, however often it is used.
The(S) == CHOOSE x \in S : TRUE

\* What packb writes for v, token by token, with the exception in the
\* place of the tokens of an object it raises on: lists and tuples are
\* written as arrays alike, a numpy array as the dict msgpack_numpy's encode
\* makes of it; an int beyond 64 bits raises OverflowError, a string UTF-8
\* cannot encode UnicodeEncodeError, nesting beyond the limit ValueError and
\* an object of any other type TypeError.
RECURSIVE Tokens(_)
RECURSIVE TokensOfEach(_)
RECURSIVE TokensOfItems(_, _)
Tokens(v) ==
  CASE Tag(v) = "None" -> << <<"nil">> >>
    [] Tag(v) = "bool" -> << IF v[2] THEN <<"true">> ELSE <<"false">> >>
    [] Tag(v) = "int" -> << <<"int", v[2]>> >>
    [] Tag(v) = "bigint" -> << Raise("OverflowError") >>
    [] Tag(v) = "float" -> << <<"float64", v[2]>> >>
    [] Tag(v) = "str" ->
         IF v[2] \in Unencodable THEN << Raise("UnicodeEncodeError") >>
         ELSE << <<"str", v[2]>> >>
    [] Tag(v) \in {"list", "tuple"} ->
         << <<"array", Len(v[2])>> >> \o TokensOfEach(v[2])
    [] Tag(v) = "deeplist" -> << Raise("ValueError") >>
    [] Tag(v) \in {"map", "kmap"} ->
         << <<"map", Len(v[2])>> >> \o TokensOfItems(Tag(v), v[2])
    [] Tag(v) = "dict" /\ v[2] = "__rpc_proxy__" ->
         Tokens(MapV(<< <<"__rpc_proxy__", BoolV(TRUE)>>,
                        <<"obj_id", IntV(v[3])>> >>))
    [] Tag(v) = "dict" /\ v[2] = "__slice__" ->
         Tokens(MapV(<< <<"__slice__", BoolV(TRUE)>>, <<"start", v[3][1]>>,
                        <<"stop", v[3][2]>>, <<"step", v[3][3]>> >>))
    [] Tag(v) = "ndarray" ->
         << <<"map", 2>>, <<"bin", "nd">>, <<"true">>,
            <<"bin", "data">>, <<"bin", v[2]>> >>
    [] OTHER -> << Raise("TypeError") >>

\* The items of a list or tuple, one after the other.
TokensOfEach(objs) ==
  IF objs = <<>> THEN <<>>
  ELSE Tokens(Head(objs)) \o TokensOfEach(Tail(objs))

\* The items of a dict, each key followed by its value.
TokensOfItems(kind, items) ==
  IF items = <<>> THEN <<>>
  ELSE Tokens(IF kind = "map" THEN StrV(Head(items)[1]) ELSE Head(items)[1])
         \o Tokens(Head(items)[2]) \o TokensOfItems(kind, Tail(items))

\* msgpack.packb(v, use_bin_type=True), patched by msgpack_numpy: the bytes,
\* or the exception of the first object packb raises on.
PackB(v) ==
  The({LET raised == {i \in DOMAIN t : t[i][1] = "raise"}
       IN IF raised = {} THEN Ok(t)
          ELSE t[CHOOSE i \in raised : \A k \in raised : i <= k] :
         t \in {Tokens(v)}})

\* The dict unpackb builds of the keys and values kv it has read, as the
\* model writes it: the two marker dicts in short, a dict with str keys, a
\* dict with other keys; msgpack_numpy's decode turns the dict of an array
\* back into the array.
AsDict(kv) ==
  LET n == Len(kv) \div 2
      key(j) == kv[2 * j - 1]
      val(j) == kv[2 * j]
  IN IF n = 0 THEN MapV(<<>>)
     ELSE IF Tag(key(1)) = "bytes" THEN ArrayV(val(2)[2])
     ELSE IF \E j \in 1 .. n : Tag(key(j)) # "str"
     THEN KeyedV([j \in 1 .. n |-> <<key(j), val(j)>>])
     ELSE IF key(1)[2] = "__rpc_proxy__" THEN ProxyMarker(val(2)[2])
     ELSE IF key(1)[2] = "__slice__"
     THEN SliceMarker(<<val(2), val(3), val(4)>>)
     ELSE MapV([j \in 1 .. n |-> <<key(j)[2], val(j)>>])

\* unpackb reading one object at position i of the tokens t, and reading n
\* objects in a row: the object, or the objects, and the position after.
\* Every array becomes a list.
RECURSIVE ParseAt(_, _)
RECURSIVE ParseItems(_, _, _)
ParseAt(t, i) ==
  LET h == t[i]
  IN CASE h[1] = "nil" -> <<NoneV, i + 1>>
       [] h[1] = "true" -> <<BoolV(TRUE), i + 1>>
       [] h[1] = "false" -> <<BoolV(FALSE), i + 1>>
       [] h[1] = "int" -> <<IntV(h[2]), i + 1>>
       [] h[1] = "float64" -> <<FloatV(h[2]), i + 1>>
       [] h[1] = "str" -> <<StrV(h[2]), i + 1>>
       [] h[1] = "bin" -> <<<<"bytes", h[2]>>, i + 1>>
       [] h[1] = "array" ->
            The({<<ListV(r[1]), r[2]>> : r \in {ParseItems(t, i + 1, h[2])}})
       [] h[1] = "map" ->
            The({<<AsDict(r[1]), r[2]>> :
                   r \in {ParseItems(t, i + 1, 2 * h[2])}})

ParseItems(t, i, n) ==
  IF n = 0 THEN <<<<>>, i>>
  ELSE The({The({<<<<first[1]>> \o rest[1], rest[2]>> :
                    rest \in {ParseItems(t, first[2], n - 1)}}) :
              first \in {ParseAt(t, i)}})

\* msgpack.unpackb(bytes, raw=False, strict_map_key=False)
UnpackB(bytes) == ParseAt(bytes, 1)[1]

\* unpackb with use_list=False: every array comes back as a tuple.
RECURSIVE UnpackedAsTuples(_)
UnpackedAsTuples(v) ==
  CASE Tag(v) \in {"list", "tuple"} ->
         TupleV([i \in DOMAIN v[2] |-> UnpackedAsTuples(v[2][i])])
    [] Tag(v) \in {"map", "kmap"} ->
         <<Tag(v), [i \in DOMAIN v[2] |->
                 <<v[2][i][1], UnpackedAsTuples(v[2][i][2])>>]>>
    [] OTHER -> v

\* unpackb turning only the outermost array into a list.
UnpackedOutermost(v) ==
  IF Tag(v) \in {"list", "tuple"} THEN ListV(v[2]) ELSE v

\* msgpack.packb then msgpack.unpackb, of an object packb accepts.
Unpacked(v) == The({UnpackB(packed[2]) : packed \in {PackB(v)}})

\* What msgpack has no type for: a module, a function, and the RPCProxy or
\* slice _convert_proxies would have replaced.
RECURSIVE Packable(_)
Packable(v) ==
  CASE Tag(v) \in {"module", "function", "RPCProxy", "slice"} -> FALSE
    [] Tag(v) \in {"list", "tuple"} -> \A i \in DOMAIN v[2] : Packable(v[2][i])
    [] Tag(v) \in {"map", "kmap"} -> \A i \in DOMAIN v[2] : Packable(v[2][i][2])
    [] OTHER -> TRUE

\* serialize that never raises.
SerializeUnchecked(obj) == Ok(ConvertProxies(obj))

\* serialize(obj): the bytes are written as the object packb was given,
\* the converted one; raises what _convert_proxies raises, and then what
\* packb raises.
Serialize(obj) ==
  The({IF Tag(converted) = "raise" THEN converted
       ELSE The({IF IsOk(packed) THEN Ok(converted) ELSE packed :
                   packed \in {PackB(converted)}}) :
         converted \in {ConvertProxies(obj)}})

\* deserialize(data), data being the bytes serialize made of a value.
Deserialize(data) == Unpacked(data)

\* deserialize(serialize(msg)) of a request the client built: every value of
\* the mapping is converted, packed and unpacked.
WireMessage(msg) ==
  [k \in DOMAIN msg |->
     CASE k = "args" -> Unpacked(ConvertProxies(msg[k]))
       [] k = "key" -> Unpacked(ConvertProxies(msg[k]))
       [] k = "kwargs" ->
            [n \in DOMAIN msg[k] |-> Unpacked(ConvertProxies(msg[k][n]))]
       [] OTHER -> msg[k]]

(***************************************************************************)
(* server/executor.py: ClientExecutor                                      *)
(***************************************************************************)
NewExecutor ==
  [globals |-> {"__builtins__"}, objects |-> <<>>, next_obj_id |-> 0]

Put(objects, id, obj) ==
  [i \in DOMAIN objects \cup {id} |-> IF i = id THEN obj ELSE objects[i]]

\* _store_object without `self.next_obj_id += 1`.
StoreObjectNoIncrement(ex, obj) ==
  [ex |-> [ex EXCEPT !.objects = Put(ex.objects, ex.next_obj_id, obj)],
   obj_id |-> ex.next_obj_id]

\* _store_object advancing the counter by two.
StoreObjectSkipping(ex, obj) ==
  [ex |-> [ex EXCEPT !.objects = Put(ex.objects, ex.next_obj_id, obj),
                     !.next_obj_id = ex.next_obj_id + 2],
   obj_id |-> ex.next_obj_id]

\* _store_object: the executor afterwards and the id returned.
StoreObject(ex, obj) ==
  [ex |-> [ex EXCEPT !.objects = Put(ex.objects, ex.next_obj_id, obj),
                     !.next_obj_id = ex.next_obj_id + 1],
   obj_id |-> ex.next_obj_id]

\* self.objects[obj_id] with the registry kept in a list: a negative index
\* counts from the end.
LookupInList(ex, obj_id) ==
  IF obj_id \in DOMAIN ex.objects THEN Ok(ex.objects[obj_id])
  ELSE IF obj_id + ex.next_obj_id \in DOMAIN ex.objects
  THEN Ok(ex.objects[obj_id + ex.next_obj_id])
  ELSE Raise("KeyError")

\* self.objects[obj_id]
Lookup(ex, obj_id) ==
  IF obj_id \in DOMAIN ex.objects THEN Ok(ex.objects[obj_id])
  ELSE Raise("KeyError")

\* What a handler did: the executor afterwards, Ok(response) or Raise(class),
\* and the call the handler made, <<func, args, kwargs>> (<<>> when none).
Done(ex, res, callee) == [ex |-> ex, res |-> res, callee |-> callee]

Stored(ex, obj, callee) ==
  LET st == StoreObject(ex, obj)
  IN Done(st.ex, Ok([type |-> "success", obj_id |-> st.obj_id]), callee)

\* _import_module storing the submodule the dotted name ends at.
ImportModuleLeaf(ex, module_name) ==
  IF module_name \notin Importable
  THEN Done(ex, Raise("ModuleNotFoundError"), <<>>)
  ELSE Stored([ex EXCEPT !.globals = @ \cup {Head(module_name)}],
              Mod(module_name[Len(module_name)]), <<>>)

\* _import_module
ImportModule(ex, module_name) ==
  IF module_name \notin Importable
  THEN Done(ex, Raise("ModuleNotFoundError"), <<>>)
  ELSE LET top == Head(module_name)
           bound == [ex EXCEPT !.globals = @ \cup {top}]
       IN Stored(bound, Mod(top), <<>>)

\* The lookup with the path taking precedence: the stored object is used only
\* when the request carries no path.
TargetPathFirst(ex, msg) ==
  IF "obj_id" \in DOMAIN msg /\ msg.path = <<>> THEN Lookup(ex, msg.obj_id)
  ELSE Eval(msg.path, ex.globals)

\* The object a getattr or call request addresses: the stored object when an
\* obj_id is given, eval(path, self.globals) otherwise.
Target(ex, msg) ==
  IF "obj_id" \in DOMAIN msg THEN Lookup(ex, msg.obj_id)
  ELSE Eval(msg.path, ex.globals)

\* path.split(".")[-1].rstrip("()") of a dotted name.  The "()" the client
\* appends to the path of a call's result is an element "()" of its own.
RECURSIVE MethodName(_)
MethodName(path) ==
  IF path = <<>> THEN ""
  ELSE IF path[Len(path)] = "()" THEN MethodName(SubSeq(path, 1, Len(path) - 1))
  ELSE path[Len(path)]

\* _getattr
GetattrOp(ex, msg) ==
  LET obj == Target(ex, msg)
  IN IF ~IsOk(obj) THEN Done(ex, obj, <<>>)
     ELSE LET result == PyGetattr(obj[2], msg.attr)
          IN IF IsOk(result) THEN Stored(ex, result[2], <<>>)
             ELSE Done(ex, result, <<>>)

\* The arguments func(*args, **kwargs) is invoked with.
CallArgs(ex, msg) == [args |-> msg.args[2], kwargs |-> msg.kwargs]

\* _call
CallOp(ex, msg) ==
  LET obj == Target(ex, msg)
      func == IF ~IsOk(obj) THEN obj
              ELSE IF "obj_id" \in DOMAIN msg /\ ~PyCallable(obj[2])
              THEN PyGetattr(obj[2], MethodName(msg.path))
              ELSE obj
  IN IF ~IsOk(func) THEN Done(ex, func, <<>>)
     ELSE LET a == CallArgs(ex, msg)
              callee == IF PyCallable(func[2])
                        THEN <<func[2], a.args, a.kwargs>> ELSE <<>>
              result == PyCall(func[2], a.args, a.kwargs)
          IN IF IsOk(result) THEN Stored(ex, result[2], callee)
             ELSE Done(ex, result, callee)

\* _getitem reserving the id of its result before indexing.
GetitemOpReserving(ex, msg) ==
  LET obj == Lookup(ex, msg.obj_id)
  IN IF ~IsOk(obj) THEN Done(ex, obj, <<>>)
     ELSE LET result == PyGetitem(obj[2], msg.key)
          IN IF IsOk(result) THEN Stored(ex, result[2], <<>>)
             ELSE Done(StoreObject(ex, NoneV).ex, result, <<>>)

\* _getitem
GetitemOp(ex, msg) ==
  LET obj == Lookup(ex, msg.obj_id)
  IN IF ~IsOk(obj) THEN Done(ex, obj, <<>>)
     ELSE LET result == PyGetitem(obj[2], msg.key)
          IN IF IsOk(result) THEN Stored(ex, result[2], <<>>)
             ELSE Done(ex, result, <<>>)

\* _materialize registering the value like the other handlers do.
MaterializeStoring(ex, msg) ==
  LET obj == Lookup(ex, msg.obj_id)
  IN IF ~IsOk(obj) THEN Done(ex, obj, <<>>)
     ELSE Stored(ex, obj[2], <<>>)

\* _materialize
MaterializeOp(ex, msg) ==
  LET obj == Lookup(ex, msg.obj_id)
  IN IF ~IsOk(obj) THEN Done(ex, obj, <<>>)
     ELSE LET packed == Serialize(obj[2])
          IN IF IsOk(packed)
             THEN Done(ex, Ok([type |-> "success", value |-> obj[2]]), <<>>)
             ELSE Done(ex, packed, <<>>)

Missing(msg, keys) == \E k \in keys : k \notin DOMAIN msg

\* handle_message without its else branch: it returns None.
UnknownTypeFallsThrough(ex, msg) == Done(ex, Ok([type |-> "none"]), <<>>)

\* The else branch of handle_message.
UnknownType(ex, msg) ==
  Done(ex, Ok([type |-> "error",
               error |-> "Unknown message type: " \o msg.type]), <<>>)

\* The body of handle_message's try.  A deserialized message that is not a
\* dict is written [nonmapping |-> TRUE]: msg["type"] raises TypeError on it.
Dispatch(ex, msg) ==
  IF "nonmapping" \in DOMAIN msg THEN Done(ex, Raise("TypeError"), <<>>)
  ELSE IF "type" \notin DOMAIN msg THEN Done(ex, Raise("KeyError"), <<>>)
  ELSE CASE msg.type = "import_module" ->
              IF Missing(msg, {"module"}) THEN Done(ex, Raise("KeyError"), <<>>)
              ELSE ImportModule(ex, msg.module)
         [] msg.type = "getattr" ->
              IF Missing(msg, {"path", "attr"})
              THEN Done(ex, Raise("KeyError"), <<>>)
              ELSE GetattrOp(ex, msg)
         [] msg.type = "call" ->
              IF Missing(msg, {"path", "args", "kwargs"})
              THEN Done(ex, Raise("KeyError"), <<>>)
              ELSE CallOp(ex, msg)
         [] msg.type = "getitem" ->
              IF Missing(msg, {"obj_id", "key"})
              THEN Done(ex, Raise("KeyError"), <<>>)
              ELSE GetitemOp(ex, msg)
         [] msg.type = "materialize" ->
              IF Missing(msg, {"obj_id"}) THEN Done(ex, Raise("KeyError"), <<>>)
              ELSE MaterializeOp(ex, msg)
         [] OTHER -> UnknownType(ex, msg)

Recognised == {"import_module", "getattr", "call", "getitem", "materialize"}

\* traceback.format_exc() inside the except clause: never empty.
TracebackText == "Traceback (most recent call last)"

\* The except clause: `except Exception as e`.  str(e) is written as the
\* name of e's class.
Caught(cls) == cls \notin BaseOnly

\* The error response without the traceback.
ErrorResponseBare(cls) == [type |-> "error", error |-> cls]

ErrorResponse(cls) ==
  [type |-> "error", error |-> cls, traceback |-> TracebackText]

\* handle_message: the executor afterwards; the response when it returns one
\* (returned); otherwise the exception that escapes it (exc).
NoResponse == [type |-> "none"]

\* What handle_message makes of the outcome d of its try body: the response
\* is returned, the exception is turned into an error response by the except
\* clause, or it escapes.
Outcome(d) ==
  IF IsOk(d.res)
  THEN [ex |-> d.ex, returned |-> TRUE, resp |-> d.res[2], exc |-> "",
        callee |-> d.callee]
  ELSE IF Caught(d.res[2])
  THEN [ex |-> d.ex, returned |-> TRUE, resp |-> ErrorResponse(d.res[2]),
        exc |-> d.res[2], callee |-> d.callee]
  ELSE [ex |-> d.ex, returned |-> FALSE, resp |-> NoResponse,
        exc |-> d.res[2], callee |-> d.callee]

HandleMessage(ex, msg) == Outcome(Dispatch(ex, msg))

(***************************************************************************)
(* server/server.py: RPCServer                                             *)
(***************************************************************************)
\* self.token, and what a client may present (NoToken: no token in the URI).
ServerToken == "secret"
NoToken == "<none>"
TokenInputs == {ServerToken, "guess", NoToken}

\* A check that only asks for a token to be present.
AuthorizedAnyToken(tok) == tok # NoToken

\* handler: the token check, `client_token != self.token` negated.
Authorized(tok) == tok = ServerToken

\* The finally clause without its `del`.
RemoveNothing(f, c) == f

Remove(f, c) == [x \in DOMAIN f \ {c} |-> f[x]]

\* executor.handle_message mutates the executor of connection c, the value
\* of self.executors[websocket], in place.
Updated(exs, c, ex) == [exs EXCEPT ![c] = ex]

NoRequest == [type |-> "none"]

VARIABLES
  serving,     \* the server: "new" until run() is called, "running" while
               \* asyncio.run(serve()) lasts, "stopped" once it has ended
  conn,        \* per connection: "closed"; "pending" once the handshake is
               \* done and until handler has checked the token; "open" while
               \* handler is in its loop; "rejected" after the close with
               \* code 1008; "unserved" and "closing" for a connection the
               \* peer has closed before and after handler checked the token
  token,       \* per connection: the token of its handshake
  executors,   \* RPCServer.executors: connection -> ClientExecutor
  issued,      \* per executor: the obj_ids it has returned, in order
  lastEv,      \* the server's latest step: "init", "accept", "reject",
               \* "response", "crash" or "disconnect"
  lastConn,    \* the connection of that step
  lastReq,     \* the message handled in that step
  lastResp,    \* what handle_message returned for it
  lastExc,     \* the exception raised while handling it ("" when none)
  lastCallee,  \* the call made while handling it: <<func, args, kwargs>>
  ws,          \* Connection.ws is set (FALSE: it is None)
  request_id,  \* Connection.request_id
  proxies,     \* the RPCProxy objects of the client: [path, obj_id]
  pc,          \* the caller: "idle", "waiting" in Connection._send's recv,
               \* "connecting" or "accepted" in connect, "closing" in disconnect
  op,          \* the latest operation the caller started
  opSent,      \* the types of the requests that operation sent
  returned,    \* what the latest finished operation gave the caller
  retFor,      \* the id of the request whose response was last returned
  wire,        \* frames the client sent, not yet read by the server
  back,        \* frames the server sent, not yet received by the client
  handledIds,  \* the ids of the requests the server has read, in order,
               \* each as the number its digits spell
  connection,  \* the global _connection: the number of the Connection
               \* instance it names, 0 when it is None
  made,        \* the number of Connection instances constructed so far
  loop,        \* Connection.loop is set (FALSE: it is None)
  env_token,   \* os.environ.get("SIMPLERPC_TOKEN"), NoToken when unset
  preloaded,   \* the modules of Preloadable in sys.modules at the start
  sys_modules,      \* sys.modules: module name -> module or proxy
  original_modules, \* ModulePatcher.original_modules: name -> original
  plain,       \* the value a caller hands to serialize
  data,        \* what serialize made of it: Ok(bytes) or Raise(class)
  results      \* the values deserialize has returned, in order

serverVars == <<serving, conn, token, executors, issued, lastEv, lastConn,
                lastReq, lastResp, lastExc, lastCallee>>
clientVars == <<ws, request_id, proxies, pc, op, opSent, returned, retFor,
                wire, back, handledIds, connection, made, loop, env_token,
                preloaded, sys_modules, original_modules>>
codecVars == <<plain, data, results>>
vars == <<serverVars, clientVars, codecVars>>

NoOp ==
  [kind |-> "none", src |-> 0, name |-> "", id |-> -1, path |-> <<>>,
   arg |-> NoneV]
NothingReturned == <<"none">>

NoData == <<"none">>

InitServer ==
  /\ serving = "new"
  /\ conn = [c \in Conns |-> "closed"]
  /\ token = [c \in Conns |-> NoToken]
  /\ executors = <<>>
  /\ issued = <<>>
  /\ lastEv = "init"
  /\ lastConn = "c1"
  /\ lastReq = NoRequest
  /\ lastResp = NoResponse
  /\ lastExc = ""
  /\ lastCallee = <<>>

\* Modules the client's process may or may not hold when the caller
\* starts to patch.  json: the package's __init__ imports
\* importlib.metadata when there is no _version module, and importlib.metadata
\* imports json on some interpreters; the caller's program may have imported
\* it as well.  clientlib: a package installed on the client's side only,
\* held when the caller's program has imported it.
Preloadable == {<<"json">>, <<"clientlib">>}

\* sys.modules of the client's process when the caller starts: what the
\* interpreter imports on its own at startup and the modules in loaded.
\* colorsys, which the server can import, is not among them.
ModulesAtStart(loaded) ==
  [n \in {<<"os">>, <<"os", "path">>, <<"builtins">>} \cup loaded
     |-> Mod(n[Len(n)])]

\* The client but for its environment, n Connection instances having been
\* constructed and the global naming the latest.
InitCallerHaving(n) ==
  /\ ws = FALSE
  /\ request_id = 0
  /\ proxies = <<>>
  /\ pc = "idle"
  /\ op = NoOp
  /\ opSent = <<>>
  /\ returned = NothingReturned
  /\ retFor = -1
  /\ wire = <<>>
  /\ back = <<>>
  /\ handledIds = <<>>
  /\ connection = n
  /\ made = n
  /\ loop = FALSE
  /\ preloaded \in SUBSET Preloadable
  /\ sys_modules = ModulesAtStart(preloaded)
  /\ original_modules = <<>>

InitCaller == InitCallerHaving(0)

InitClient == InitCaller /\ env_token = NoToken

InitCodec ==
  /\ plain = NoneV
  /\ data = NoData
  /\ results = <<>>

Init == InitServer /\ InitClient /\ InitCodec

NoExchange ==
  /\ lastReq' = NoRequest
  /\ lastResp' = NoResponse
  /\ lastExc' = ""
  /\ lastCallee' = <<>>

\* run(): asyncio.run(self.serve()) starts to serve.
Run ==
  /\ serving = "new"
  /\ serving' = "running"
  /\ UNCHANGED <<conn, token, executors, issued, lastEv, lastConn, lastReq,
                 lastResp, lastExc, lastCallee>>

\* handler, up to the loop, for a connection whose handshake presented tok.
\* A connection that fails the check is closed with code 1008 and the
\* handler returns; one that passes it gets its executor, also when the
\* peer has closed it by then.
HandlerStart(c, tok) ==
  /\ token' = [token EXCEPT ![c] = tok]
  /\ lastConn' = c
  /\ NoExchange
  /\ serving' = serving
  /\ IF Authorized(tok)
     THEN /\ executors' = Put(executors, c, NewExecutor)
          /\ issued' = Put(issued, c, <<>>)
          /\ conn' = [conn EXCEPT ![c] = IF conn[c] = "unserved"
                                         THEN "closing" ELSE "open"]
          /\ lastEv' = "accept"
     ELSE /\ conn' = [conn EXCEPT ![c] = "rejected"]
          /\ lastEv' = "reject"
          /\ UNCHANGED <<executors, issued>>

\* A client connects to the running server presenting tok, and handler
\* starts for the connection.
Connect(c, tok) ==
  /\ serving = "running"
  /\ conn[c] \in {"closed", "rejected"}
  /\ HandlerStart(c, tok)

\* handler's finally clause; the connection is gone afterwards.
Finally(c) ==
  /\ executors' = Remove(executors, c)
  /\ issued' = Remove(issued, c)
  /\ conn' = [conn EXCEPT ![c] = "closed"]
  /\ token' = [token EXCEPT ![c] = NoToken]
  /\ serving' = serving

\* The exceptions a task lets through to the event loop: run_forever raises
\* them, and asyncio.run(self.serve()) ends.
StopsServer(cls) == cls \in {"SystemExit", "KeyboardInterrupt"}

\* The end of asyncio.run: every handler still running is cancelled, its
\* finally clause deletes its executor, every connection is closed, and
\* the server accepts no connection any more.
StopAll ==
  /\ executors' = <<>>
  /\ issued' = <<>>
  /\ conn' = [c \in Conns |-> "closed"]
  /\ token' = [c \in Conns |-> NoToken]
  /\ serving' = "stopped"

\* The number of objects the executors hold.
RECURSIVE Held(_, _)
Held(exs, cs) ==
  IF cs = {} THEN 0
  ELSE LET c == CHOOSE x \in cs : TRUE
       IN exs[c].next_obj_id + Held(exs, cs \ {c})

\* One turn of handler's loop on a frame that deserializes to msg:
\* handle_message, then serialize and send the response.  An exception that
\* escapes handle_message leaves the loop through the finally clause.
Serve(c, msg) ==
  /\ c \in DOMAIN executors
  /\ \E h \in {HandleMessage(executors[c], msg)} :
        /\ Held(Updated(executors, c, h.ex), DOMAIN executors) <= MaxObjs
        /\ lastReq' = msg
        /\ lastResp' = h.resp
        /\ lastExc' = h.exc
        /\ lastCallee' = h.callee
        /\ IF h.returned
           THEN /\ executors' = Updated(executors, c, h.ex)
                /\ issued' = IF "obj_id" \in DOMAIN h.resp
                             THEN [issued EXCEPT ![c] = Append(@, h.resp.obj_id)]
                             ELSE issued
                /\ lastEv' = "response"
                /\ UNCHANGED <<serving, conn, token>>
           ELSE /\ IF StopsServer(h.exc) THEN StopAll ELSE Finally(c)
                /\ lastEv' = "crash"
  /\ lastConn' = c

\* Frames that are no msgpack message: one that ends within a value
\* (b'\x92\x01'), a text frame, one with bytes after the value
\* (b'\x01\x02'), one with a byte that starts no value (b'\xc1').
GarbageFrames == {"truncated", "text", "extra", "invalid"}

\* The class of the exception msgpack.unpackb raises on such a frame.
UnpackError(frame) ==
  CASE frame = "truncated" -> "ValueError"
    [] frame = "text" -> "TypeError"
    [] frame = "extra" -> "ExtraData"
    [] frame = "invalid" -> "FormatError"

\* One turn of handler's loop on a frame deserialize raises on: the
\* exception is not ConnectionClosed and leaves the handler.
ServeGarbage(c, frame) ==
  /\ c \in DOMAIN executors
  /\ Finally(c)
  /\ lastEv' = "crash"
  /\ lastConn' = c
  /\ lastReq' = [garbage |-> TRUE]
  /\ lastResp' = NoResponse
  /\ lastExc' = UnpackError(frame)
  /\ lastCallee' = <<>>

\* The connection is closed from the client's side: the loop ends, finally
\* runs.
Disconnect(c) ==
  /\ conn[c] \in {"open", "closing"}
  /\ Finally(c)
  /\ lastEv' = "disconnect"
  /\ lastConn' = c
  /\ NoExchange

(***************************************************************************)
(* The requests a client sends.                                            *)
(***************************************************************************)
\* -1 is an id no executor ever stores.
IdInputs == -1 .. MaxObjs - 1
ImportInputs == {<<"os">>, <<"os", "path">>, <<"nomod">>}
AttrInputs == {"sep", "fspath", "nosuch"}
NoKwargs == <<>>
\* path, args and kwargs of the calls made through a path alone
PathCalls ==
  { [path |-> <<"len">>, args |-> TupleV(<<StrV("/")>>), kwargs |-> NoKwargs],
    [path |-> <<"abs">>, args |-> TupleV(<<Proxy(0)>>), kwargs |-> NoKwargs],
    [path |-> <<"exit">>, args |-> TupleV(<<>>), kwargs |-> NoKwargs],
    [path |-> <<>>, args |-> TupleV(<<>>), kwargs |-> NoKwargs] }
\* path, args and kwargs of the calls made on a stored object
IdCalls ==
  { [path |-> <<>>, args |-> TupleV(<<StrV("/")>>), kwargs |-> NoKwargs],
    [path |-> <<>>, args |-> TupleV(<<Proxy(0)>>), kwargs |-> NoKwargs],
    [path |-> <<>>, args |-> TupleV(<<>>),
     kwargs |-> [path |-> ListV(<<Proxy(0)>>)]],
    [path |-> <<"lower">>, args |-> TupleV(<<>>), kwargs |-> NoKwargs],
    [path |-> <<"os", "fspath">>, args |-> TupleV(<<StrV("/")>>),
     kwargs |-> NoKwargs] }
\* The paths a request is compared under.
PathInputs == {<<>>, <<"lower">>, <<"os", "sep">>}
KeyInputs == {IntV(0), IntV(1), SliceV(<<IntV(0), IntV(1), NoneV>>)}
UnknownTypes == {"bogus"}

WithType(msg, t) ==
  [k \in DOMAIN msg \cup {"type"} |-> IF k = "type" THEN t ELSE msg[k]]

WithId(msg, id) ==
  [k \in DOMAIN msg \cup {"obj_id"} |-> IF k = "obj_id" THEN id ELSE msg[k]]

WithPath(msg, p) ==
  [k \in DOMAIN msg \cup {"path"} |-> IF k = "path" THEN p ELSE msg[k]]

\* The requests the client builds, as the server deserializes them.
ImportMsgs ==
  {WireMessage([type |-> "import_module", module |-> m]) : m \in ImportInputs}
GetattrPathMsgs ==
  {WireMessage([type |-> "getattr", path |-> <<"os">>, attr |-> a]) :
     a \in AttrInputs}
GetattrIdMsgs ==
  {WireMessage([type |-> "getattr", path |-> <<>>, obj_id |-> id, attr |-> a]) :
     id \in IdInputs, a \in AttrInputs}
CallPathMsgs == {WireMessage(WithType(call, "call")) : call \in PathCalls}
CallIdMsgs ==
  {WireMessage(WithId(WithType(call, "call"), id)) :
     call \in IdCalls, id \in IdInputs}
GetitemMsgs ==
  {WireMessage([type |-> "getitem", obj_id |-> id, key |-> k]) :
     id \in IdInputs, k \in KeyInputs}
MaterializeMsgs ==
  {WireMessage([type |-> "materialize", obj_id |-> id]) : id \in IdInputs}
UnknownMsgs == {WireMessage([type |-> t]) : t \in UnknownTypes}

ReqImport(c) == \E msg \in ImportMsgs : Serve(c, msg)

ReqGetattr(c) ==
  \/ \E msg \in GetattrPathMsgs : Serve(c, msg)
  \/ \E msg \in GetattrIdMsgs : Serve(c, msg)

ReqCall(c) ==
  \/ \E msg \in CallPathMsgs : Serve(c, msg)
  \/ \E msg \in CallIdMsgs : Serve(c, msg)

ReqGetitem(c) == \E msg \in GetitemMsgs : Serve(c, msg)

ReqMaterialize(c) == \E msg \in MaterializeMsgs : Serve(c, msg)

ReqUnknown(c) == \E msg \in UnknownMsgs : Serve(c, msg)

\* Frames that deserialize, but not to a well-formed request.
ReqMalformed(c) ==
  \/ Serve(c, [nonmapping |-> TRUE])
  \/ Serve(c, [module |-> <<"os">>])
  \/ Serve(c, [type |-> "import_module"])
  \/ Serve(c, [type |-> "call", path |-> <<"len">>, kwargs |-> NoKwargs])
  \/ Serve(c, [type |-> "getitem", key |-> IntV(0)])

\* The client of the ClientSpec below takes no part.
CodecIdle == UNCHANGED codecVars
ClientIdle == UNCHANGED clientVars /\ CodecIdle

\* The server under requests of any shape, from several connections.
Next ==
  \/ Run /\ ClientIdle
  \/ \E c \in Conns :
    \/ (\E tok \in TokenInputs : Connect(c, tok)) /\ ClientIdle
    \/ ReqImport(c) /\ ClientIdle
    \/ ReqGetattr(c) /\ ClientIdle
    \/ ReqCall(c) /\ ClientIdle
    \/ ReqGetitem(c) /\ ClientIdle
    \/ ReqMaterialize(c) /\ ClientIdle
    \/ ReqUnknown(c) /\ ClientIdle
    \/ ReqMalformed(c) /\ ClientIdle
    \/ (\E frame \in GarbageFrames : ServeGarbage(c, frame)) /\ ClientIdle
    \/ Disconnect(c) /\ ClientIdle

Spec == Init /\ [][Next]_vars


(***************************************************************************)
(* client/connection.py, client/proxy.py, client/patcher.py: one client,   *)
(* its Connection and its proxies, and the server's handler for it, joined *)
(* by the two directions of the WebSocket.                                 *)
(***************************************************************************)
ClientConn == "c1"

\* Attribute names the class of an RPCProxy already defines, through
\* NonCallableMock: normal lookup finds them, __getattr__ is not called.
MockAttrs == {"called", "call_count", "return_value"}
\* The names that start with an underscore.
Underscored == {"_private", "__getitem__"}

\* A check for the reserved prefix that is never true.
StartsWithUnderscoreNever(name) == FALSE

\* name.startswith("_")
StartsWithUnderscore(name) == name \in Underscored

ClientImports == {<<"os">>, <<"builtins">>}
\* The attributes read on any proxy, and those read on the first one.
ClientAttrs == {"sep", "list", "tuple"}
LocalAttrs == {"called", "_private"}
ClientArgs == {<<>>, <<ListV(<<ListV(<<StrV("/")>>)>>)>>}
ClientKeys == {IntV(0)}

\* deserialize(serialize(response)), as Connection._send returns it.
WireResponse(resp) ==
  [k \in DOMAIN resp |->
     IF k = "value" THEN Unpacked(ConvertProxies(resp[k])) ELSE resp[k]]

\* materialize handing back a sequence without its items.
MaterializeValueShallow(response) ==
  IF Tag(response.value) = "list" THEN ListV(<<>>) ELSE response.value

\* materialize(proxy): `return response["value"]`
MaterializeValue(response) == response.value

\* RemoteException(response["error"], response.get("traceback")) as the
\* caller catches it: its message, its remote_traceback and its __cause__,
\* which is None since the exception is raised without `from`.
RemoteException(response) ==
  [message |-> response.error,
   remote_traceback |-> IF "traceback" \in DOMAIN response
                        THEN StrV(response.traceback) ELSE NoneV,
   cause |-> "None"]

\* A caller that does not wait for Connection.send to return.
MaySendAnyTime(p) == TRUE

\* Connection.send blocks its caller in run_until_complete: an operation
\* starts only when no other one is under way.
MaySend(p) == p = "idle"

\* The connection carries frames: its handshake is done and neither side
\* has closed it.
LinkUp(link) == link \in {"open", "pending"}

\* A recv that keeps waiting on a closed connection.
RecvNeverRaises(link, frames) ==
  IF frames # <<>> THEN "frame" ELSE "blocked"

\* await self.ws.recv(): the next frame, ConnectionClosed once the
\* connection is closed and nothing is left to read, and no return before.
Recv(link, frames) ==
  IF frames # <<>> THEN "frame"
  ELSE IF ~LinkUp(link) THEN "closed"
  ELSE "blocked"

ServerUntouched == UNCHANGED serverVars

\* Room for the object a request may store.
CanStore ==
  ClientConn \in DOMAIN executors =>
    executors[ClientConn].next_obj_id < MaxObjs

\* str(n) of a natural number n
Digits == <<"0", "1", "2", "3", "4", "5", "6", "7", "8", "9">>
RECURSIVE PyStr(_)
PyStr(n) ==
  IF n < 10 THEN Digits[n + 1] ELSE PyStr(n \div 10) \o Digits[(n % 10) + 1]

\* The request_id a frame's id field was made of.
IdNumber(id) == CHOOSE n \in 0 .. MaxSends : PyStr(n) = id

\* _send leaving request_id as it is.
NextRequestIdSame(n) == n

\* `self.request_id += 1`
NextRequestId(n) == n + 1

\* Connection.send(message) up to the await of recv, for operation o of a
\* caller whose proxies are pxs by then.
SendReq(message, o, pxs) ==
  /\ MaySend(pc)
  /\ request_id < MaxSends
  /\ op' = [o EXCEPT !.id = IF loop THEN request_id ELSE -1]
  /\ proxies' = pxs
  /\ UNCHANGED <<retFor, back, handledIds, ws, loop, env_token,
                 preloaded, sys_modules,
                 original_modules>>
  /\ ServerUntouched
  /\ IF ~loop
     THEN \* self.loop is None: send raises before _send is made
          /\ returned' = <<"raise", "AttributeError">>
          /\ opSent' = <<>>
          /\ UNCHANGED <<request_id, pc, wire>>
     ELSE /\ request_id' = NextRequestId(request_id)
          /\ IF ~ws
             THEN \* self.ws is None, after a connect that failed: _send has
                  \* taken an id by the time `self.ws.send` raises
                  /\ returned' = <<"raise", "AttributeError">>
                  /\ opSent' = <<>>
                  /\ UNCHANGED <<pc, wire>>
             ELSE IF LinkUp(conn[ClientConn])
             THEN /\ wire' = Append(wire, WireMessage(
                       [k \in DOMAIN message \cup {"id"} |->
                          IF k = "id" THEN PyStr(request_id)
                          ELSE message[k]]))
                  /\ opSent' = <<message.type>>
                  /\ pc' = "waiting"
                  /\ UNCHANGED returned
             ELSE \* ws.send raises on a closed connection
                  /\ returned' = <<"raise", "ConnectionClosed">>
                  /\ opSent' = <<>>
                  /\ UNCHANGED <<pc, wire>>

\* get_connection() that constructs a Connection on every call.
InstanceAlwaysNew(c, n) == n + 1

\* get_connection(): the instance the global names afterwards, c being the
\* global before and n the number of instances made so far.
Instance(c, n) == IF c = 0 THEN n + 1 ELSE c

GotConnection ==
  /\ connection # 0 \/ made < MaxInstances
  /\ connection' = Instance(connection, made)
  /\ made' = IF connection = 0 THEN made + 1 ELSE made

\* An operation that sends nothing; name is the token argument of connect.
LocalOp(kind, name) ==
  [kind |-> kind, src |-> 0, name |-> name, id |-> -1, path |-> <<>>,
   arg |-> NoneV]

\* The token with the environment consulted first.
TokenUsedEnvFirst(arg, env) == IF env # NoToken THEN env ELSE arg

\* The token Connection.connect uses: the argument, or SIMPLERPC_TOKEN when
\* the argument is None; NoToken when neither is there.
TokenUsed(arg, env) == IF arg # NoToken THEN arg ELSE env

\* get_connection()
GetConnection ==
  /\ pc = "idle"
  /\ GotConnection
  /\ op' = LocalOp("get_connection", "")
  /\ opSent' = <<>>
  /\ returned' = <<"connection", connection'>>
  /\ UNCHANGED <<ws, request_id, proxies, pc, retFor, wire, back, handledIds,
                 loop, env_token, preloaded, sys_modules, original_modules>>
  /\ ServerUntouched

\* connect(host, port, arg) up to the wait for the handshake:
\* get_connection().connect(host, port, arg) raises ValueError when there
\* is no token, and otherwise sets self.loop and waits in run_until_complete
\* for websockets.connect.  The caller does not connect while connected.
ConnectCall(arg) ==
  /\ pc = "idle"
  /\ ~LinkUp(conn[ClientConn])
  /\ GotConnection
  /\ op' = LocalOp("connect", arg)
  /\ opSent' = <<>>
  /\ UNCHANGED <<ws, request_id, proxies, retFor, wire, back, handledIds,
                 env_token, preloaded, sys_modules, original_modules>>
  /\ ServerUntouched
  /\ IF TokenUsed(arg, env_token) = NoToken
     THEN /\ returned' = <<"raise", "ValueError">>
          /\ UNCHANGED <<loop, pc>>
     ELSE /\ loop' = TRUE
          /\ pc' = "connecting"
          /\ UNCHANGED returned

\* The opening handshake with the running server, which carries the token
\* in the request URI: the connection is there, for handler to start on and
\* for websockets.connect to return.  The client's successive connections
\* go by one name, so the next one opens once the handler of the previous
\* one has ended.
Handshake ==
  /\ pc = "connecting"
  /\ serving = "running"
  /\ conn[ClientConn] \in {"closed", "rejected"}
  /\ conn' = [conn EXCEPT ![ClientConn] = "pending"]
  /\ token' = [token EXCEPT ![ClientConn] = TokenUsed(op.name, env_token)]
  /\ pc' = "accepted"
  /\ UNCHANGED <<serving, executors, issued, lastEv, lastConn, lastReq,
                 lastResp, lastExc, lastCallee>>
  /\ UNCHANGED <<ws, request_id, proxies, op, opSent, returned, retFor, wire,
                 back, handledIds, connection, made, loop, env_token, preloaded,
                 sys_modules, original_modules>>

\* websockets.connect raises, no server listening: connect raises with
\* self.loop set and self.ws as it was.
ConnectRefused ==
  /\ pc = "connecting"
  /\ serving # "running"
  /\ pc' = "idle"
  /\ returned' = <<"raise", "ConnectionRefusedError">>
  /\ UNCHANGED <<ws, request_id, proxies, op, opSent, retFor, wire, back,
                 handledIds, connection, made, loop, env_token,
                 preloaded, sys_modules,
                 original_modules>>
  /\ ServerUntouched

\* _connect sets self.ws and connect returns, with nothing.  The server's
\* handler checks the token on its own time: websockets.connect returns a
\* connection whatever the token is.
ConnectReturn ==
  /\ pc = "accepted"
  /\ ws' = TRUE
  /\ pc' = "idle"
  /\ returned' = <<"value", NoneV>>
  /\ UNCHANGED <<request_id, proxies, op, opSent, retFor, wire, back,
                 handledIds, connection, made, loop, env_token,
                 preloaded, sys_modules,
                 original_modules>>
  /\ ServerUntouched

\* handler starts for the client's connection; a connection it closes with
\* code 1008 loses the frames the client has sent on it.
ServerAccept ==
  /\ conn[ClientConn] \in {"pending", "unserved"}
  /\ HandlerStart(ClientConn, token[ClientConn])
  /\ wire' = IF Authorized(token[ClientConn]) THEN wire ELSE <<>>
  /\ UNCHANGED <<ws, request_id, proxies, pc, op, opSent, returned, retFor,
                 back, handledIds, connection, made, loop, env_token, preloaded,
                 sys_modules, original_modules>>

\* connect() with the server's token, by a caller that connects once, to a
\* server that is running.
ClientConnect ==
  /\ ~ws
  /\ serving = "running"
  /\ ConnectCall(ServerToken)

\* `_connection = None`
Cleared(c) == 0

\* The connection as the client's close leaves it for the server.
ClosedByPeer(link) == IF link = "pending" THEN "unserved" ELSE "closing"

\* disconnect() up to the wait for the close: with no global instance it
\* does nothing; with one whose ws is None, or whose connection is closed
\* already, nothing is waited for and the global is cleared; otherwise
\* Connection.disconnect waits in run_until_complete for ws.close().
DisconnectCall ==
  /\ pc = "idle"
  /\ op' = LocalOp("disconnect", "")
  /\ opSent' = <<>>
  /\ UNCHANGED <<proxies, retFor, wire, back, handledIds, made, env_token,
                 preloaded, sys_modules, original_modules>>
  /\ IF connection = 0
     THEN /\ returned' = <<"value", NoneV>>
          /\ UNCHANGED <<connection, ws, loop, request_id, pc>>
          /\ ServerUntouched
     ELSE IF ws /\ LinkUp(conn[ClientConn])
     THEN /\ pc' = "closing"
          /\ conn' = [conn EXCEPT ![ClientConn] = ClosedByPeer(@)]
          /\ UNCHANGED <<serving, token, executors, issued, lastEv, lastConn,
                         lastReq, lastResp, lastExc, lastCallee>>
          /\ UNCHANGED <<connection, ws, loop, request_id, returned>>
     ELSE /\ connection' = Cleared(connection)
          /\ IF connection' = 0
             THEN ws' = FALSE /\ loop' = FALSE /\ request_id' = 0
             ELSE UNCHANGED <<ws, loop, request_id>>
          /\ returned' = <<"value", NoneV>>
          /\ UNCHANGED pc
          /\ ServerUntouched

\* ws.close() has returned: the global is cleared, and disconnect returns.
\* The next instance starts as __init__ leaves it.
DisconnectReturn ==
  /\ pc = "closing"
  /\ pc' = "idle"
  /\ connection' = Cleared(connection)
  /\ IF connection' = 0
     THEN ws' = FALSE /\ loop' = FALSE /\ request_id' = 0
     ELSE UNCHANGED <<ws, loop, request_id>>
  /\ returned' = <<"value", NoneV>>
  /\ UNCHANGED <<proxies, op, opSent, retFor, wire, back, handledIds, made,
                 env_token, preloaded, sys_modules, original_modules>>
  /\ ServerUntouched

\* handler's loop ends on the connection the client's side has closed, and
\* finally runs.
HandlerEnds ==
  /\ conn[ClientConn] = "closing"
  /\ Disconnect(ClientConn)
  /\ UNCHANGED clientVars

\* A patcher that takes no name for patched.
AlreadyPatchedNever(module_name, originals) == FALSE

\* `module_name in self.original_modules`
AlreadyPatched(module_name, originals) == module_name \in DOMAIN originals

\* patch_module(module_name), up to the response: a name already patched
\* is answered from sys.modules, any other is asked of the server.
ClientImport(module_name) ==
  LET o == [kind |-> "import", src |-> 0, name |-> "", id |-> -1,
            path |-> module_name, arg |-> NoneV]
  IN IF AlreadyPatched(module_name, original_modules)
     THEN /\ MaySend(pc)
          /\ op' = o
          /\ opSent' = <<>>
          /\ returned' = IF module_name \in DOMAIN sys_modules
                         THEN sys_modules[module_name]
                         ELSE <<"raise", "KeyError">>
          /\ UNCHANGED <<ws, request_id, proxies, pc, retFor, wire, back,
                         handledIds, connection, made, loop, env_token, preloaded,
                         sys_modules, original_modules>>
          /\ ServerUntouched
     ELSE /\ Len(proxies) < MaxProxies
          /\ CanStore
          /\ GotConnection
          /\ SendReq([type |-> "import_module", module |-> module_name], o,
                     proxies)

\* sys.modules after unpatch_all that leaves the names it added in place.
RestoredKeepingAdded(mods, originals) ==
  [n \in DOMAIN mods |->
     IF n \in DOMAIN originals /\ originals[n] # NoneV
     THEN originals[n] ELSE mods[n]]

\* sys.modules after the loop of unpatch_all: a name whose original is None
\* is popped, any other recorded name is bound to its original again.
Restored(mods, originals) ==
  [n \in {m \in DOMAIN mods \cup DOMAIN originals :
            m \in DOMAIN originals => originals[m] # NoneV} |->
     IF n \in DOMAIN originals THEN originals[n] ELSE mods[n]]

\* unpatch_all()
ClientUnpatchAll ==
  /\ pc = "idle"
  /\ op' = LocalOp("unpatch_all", "")
  /\ opSent' = <<>>
  /\ returned' = <<"value", NoneV>>
  /\ sys_modules' = Restored(sys_modules, original_modules)
  /\ original_modules' = <<>>
  /\ UNCHANGED <<ws, request_id, proxies, pc, retFor, wire, back, handledIds,
                 connection, made, loop, env_token, preloaded>>
  /\ ServerUntouched

\* _get_child_mock: the child for name, made once and kept by the mock.
ChildOf(i, name) ==
  [path |-> proxies[i].path \o <<name>>, obj_id |-> proxies[i].obj_id]

HasProxy(px) == \E j \in DOMAIN proxies : proxies[j] = px
IndexOf(pxs, px) == CHOOSE j \in DOMAIN pxs : pxs[j] = px
WithProxy(px) == IF HasProxy(px) THEN proxies ELSE Append(proxies, px)

\* proxy.name, for the proxy at index i
ClientGetattr(i, name) ==
  LET o == [kind |-> "getattr", src |-> i, name |-> name, id |-> -1,
            path |-> proxies[i].path \o <<name>>, arg |-> NoneV]
  IN IF name = "return_value"
     THEN \* a property of NonCallableMock: its getter makes the value with
          \* _get_child_mock, which is given no `name`, and the mock keeps
          \* it: an RPCProxy with "" added to the path and the same obj_id
          /\ MaySend(pc)
          /\ HasProxy(ChildOf(i, "")) \/ Len(proxies) < MaxProxies
          /\ op' = o
          /\ opSent' = <<>>
          /\ proxies' = WithProxy(ChildOf(i, ""))
          /\ returned' = <<"proxy", IndexOf(proxies', ChildOf(i, ""))>>
          /\ UNCHANGED <<ws, request_id, pc, retFor, wire, back, handledIds,
                         connection, made, loop, env_token,
                         preloaded, sys_modules,
                         original_modules>>
          /\ ServerUntouched
     ELSE IF name \in MockAttrs
     THEN \* found on the class: a local value
          /\ MaySend(pc)
          /\ op' = o
          /\ opSent' = <<>>
          /\ returned' = <<"local", name>>
          /\ UNCHANGED <<ws, request_id, proxies, pc, retFor, wire, back,
                         handledIds, connection, made, loop, env_token, preloaded,
                         sys_modules, original_modules>>
          /\ ServerUntouched
     ELSE IF StartsWithUnderscore(name)
     THEN \* super().__getattr__(name): a child mock, no request
          /\ MaySend(pc)
          /\ HasProxy(ChildOf(i, name)) \/ Len(proxies) < MaxProxies
          /\ op' = o
          /\ opSent' = <<>>
          /\ proxies' = WithProxy(ChildOf(i, name))
          /\ returned' = <<"child", name>>
          /\ UNCHANGED <<ws, request_id, pc, retFor, wire, back, handledIds,
                         connection, made, loop, env_token,
                         preloaded, sys_modules,
                         original_modules>>
          /\ ServerUntouched
     ELSE /\ Len(proxies) < MaxProxies
          /\ CanStore
          /\ UNCHANGED <<connection, made>>
          /\ SendReq([type |-> "getattr", path |-> proxies[i].path,
                      obj_id |-> proxies[i].obj_id, attr |-> name], o,
                     proxies)

\* RPCProxy.__call__ of the proxy at index i
CallRequest(px, args) ==
  [type |-> "call", path |-> px.path, obj_id |-> px.obj_id,
   args |-> TupleV(args), kwargs |-> NoKwargs]

ClientCall(i, args) ==
  /\ Len(proxies) < MaxProxies
  /\ CanStore
  /\ UNCHANGED <<connection, made>>
  /\ SendReq(CallRequest(proxies[i], args),
             [kind |-> "call", src |-> i, name |-> "", id |-> -1,
              path |-> proxies[i].path \o <<"()">>, arg |-> NoneV], proxies)

\* proxy[key]: MagicMock sets __getitem__ on the class made for each mock
\* instance, which hides RPCProxy.__getitem__; the entry is a child mock,
\* an RPCProxy made by _get_child_mock, and it is called with the key.
ClientIndex(i, key) ==
  LET child == ChildOf(i, "__getitem__")
  IN /\ Len(WithProxy(child)) < MaxProxies
     /\ CanStore
     /\ UNCHANGED <<connection, made>>
     /\ SendReq(CallRequest(child, <<key>>),
                [kind |-> "index", src |-> i, name |-> "", id |-> -1,
                 path |-> child.path \o <<"()">>, arg |-> NoneV],
                WithProxy(child))

\* materialize(proxy)
ClientMaterialize(i) ==
  /\ UNCHANGED <<connection, made>>
  /\ SendReq([type |-> "materialize", obj_id |-> proxies[i].obj_id],
             [kind |-> "materialize", src |-> i, name |-> "", id |-> -1,
              path |-> <<>>, arg |-> <<"proxy", i>>], proxies)

\* isinstance(obj, RPCProxy) that holds of nothing.
IsInstanceRPCProxyNever(obj) == FALSE

\* isinstance(obj, RPCProxy): the caller's i-th proxy is <<"proxy", i>>,
\* every other object of the caller is a tagged value.
IsInstanceRPCProxy(obj) == obj[1] = "proxy"

\* The value holds an RPCProxy the caller constructed with RPCProxy(...).
RECURSIVE HoldsProxy(_)
HoldsProxy(v) ==
  CASE v[1] = "RPCProxy" -> TRUE
    [] v[1] \in {"list", "tuple"} -> \E i \in DOMAIN v[2] : HoldsProxy(v[2][i])
    [] v[1] \in {"map", "kmap"} ->
         \E i \in DOMAIN v[2] : HoldsProxy(v[2][i][2])
    [] OTHER -> FALSE

\* An operation that ends in the caller's own process.  An argument that
\* holds an RPCProxy of the caller's making is built for the call, and
\* RPCProxy.__init__ calls get_connection().
ReturnsLocally(kind, obj, result) ==
  /\ pc = "idle"
  /\ op' = [LocalOp(kind, "") EXCEPT !.arg = obj]
  /\ opSent' = <<>>
  /\ returned' = result
  /\ IF HoldsProxy(obj) THEN GotConnection ELSE UNCHANGED <<connection, made>>
  /\ UNCHANGED <<ws, request_id, proxies, pc, retFor, wire, back, handledIds,
                 loop, env_token, preloaded, sys_modules, original_modules>>
  /\ ServerUntouched

\* materialize(obj): an object that is not an RPCProxy is returned as it
\* is, a proxy is asked of the server.
MaterializeOf(obj) ==
  IF ~IsInstanceRPCProxy(obj)
  THEN ReturnsLocally("materialize", obj, <<"value", obj>>)
  ELSE ClientMaterialize(obj[2])

\* is_proxy(obj)
ClientIsProxy(obj) ==
  ReturnsLocally("is_proxy", obj, <<"value", BoolV(IsInstanceRPCProxy(obj))>>)

\* The handler's loop going on to the next frame without sending.
WebsocketSendNothing(frames, frame) == frames

\* `await websocket.send(response_data)`: the frame joins those on their
\* way to the client.
WebsocketSend(frames, frame) == Append(frames, frame)

\* One turn of the handler's loop for the client's connection: it reads the
\* oldest frame, handles it and sends the response.  When an exception
\* leaves the loop the connection is closed and unread frames are dropped.
ServerTurn ==
  /\ wire # <<>>
  /\ Serve(ClientConn, Head(wire))
  /\ handledIds' = Append(handledIds, IdNumber(Head(wire).id))
  /\ IF lastEv' = "response"
     THEN /\ wire' = Tail(wire)
          /\ back' = WebsocketSend(back, [resp |-> WireResponse(lastResp'),
                                          id |-> IdNumber(Head(wire).id)])
     ELSE /\ wire' = <<>>
          /\ back' = back
  /\ UNCHANGED <<ws, request_id, proxies, pc, op, opSent, returned, retFor,
                 connection, made, loop, env_token, preloaded, sys_modules,
                 original_modules>>

\* patch_module saving the original before it looks at the response's type.
SavedOriginalsFirst(originals, mods, module_name, response) ==
  Put(originals, module_name,
      IF module_name \in DOMAIN mods THEN mods[module_name] ELSE NoneV)

\* self.original_modules once patch_module has its response: an error
\* response raises before anything is saved; otherwise the entry of
\* sys.modules is saved, None for a name sys.modules lacks.
SavedOriginals(originals, mods, module_name, response) ==
  IF response.type = "error" THEN originals
  ELSE Put(originals, module_name,
           IF module_name \in DOMAIN mods THEN mods[module_name] ELSE NoneV)

\* Connection._send from the await of recv on, and what the operation that
\* called send makes of the response.
ClientRecv ==
  /\ pc = "waiting"
  /\ Recv(conn[ClientConn], back) # "blocked"
  /\ pc' = "idle"
  /\ IF Recv(conn[ClientConn], back) = "frame"
     THEN LET response == Head(back).resp
          IN /\ back' = Tail(back)
             /\ retFor' = Head(back).id
             /\ IF response.type = "error"
                THEN /\ returned' = <<"raise", "RemoteException",
                                       RemoteException(response)>>
                     /\ original_modules' =
                          IF op.kind = "import"
                          THEN SavedOriginals(original_modules, sys_modules,
                                              op.path, response)
                          ELSE original_modules
                     /\ UNCHANGED <<proxies, sys_modules>>
                ELSE IF op.kind = "materialize"
                THEN /\ returned' = <<"value", MaterializeValue(response)>>
                     /\ UNCHANGED <<proxies, sys_modules, original_modules>>
                ELSE /\ proxies' = Append(proxies,
                          [path |-> op.path, obj_id |-> response.obj_id])
                     /\ returned' = <<"proxy", Len(proxies) + 1>>
                     /\ IF op.kind = "import"
                        THEN \* patch_module: the original is saved, None
                             \* for a name sys.modules lacks, and the
                             \* proxy takes its place
                             /\ original_modules' =
                                  SavedOriginals(original_modules,
                                                 sys_modules, op.path,
                                                 response)
                             /\ sys_modules' =
                                  Put(sys_modules, op.path,
                                      <<"proxy", Len(proxies) + 1>>)
                        ELSE UNCHANGED <<sys_modules, original_modules>>
     ELSE /\ returned' = <<"raise", "ConnectionClosed">>
          /\ UNCHANGED <<back, retFor, proxies, sys_modules,
                         original_modules>>
  /\ UNCHANGED <<ws, request_id, op, opSent, wire, handledIds, connection,
                 made, loop, env_token, preloaded>>
  /\ ServerUntouched

\* The connection fails: the frames in flight are lost, and the server's
\* handler is left to find the connection closed.
ChannelFail ==
  /\ LinkUp(conn[ClientConn])
  /\ conn' = [conn EXCEPT ![ClientConn] = ClosedByPeer(@)]
  /\ UNCHANGED <<serving, token, executors, issued, lastEv, lastConn,
                 lastReq, lastResp, lastExc, lastCallee>>
  /\ wire' = <<>>
  /\ back' = <<>>
  /\ UNCHANGED <<ws, request_id, proxies, pc, op, opSent, returned, retFor,
                 handledIds, connection, made, loop, env_token,
                 preloaded, sys_modules,
                 original_modules>>

ClientNext ==
  \/ Run /\ ClientIdle
  \/ ClientConnect /\ CodecIdle
  \/ Handshake /\ CodecIdle
  \/ ConnectReturn /\ CodecIdle
  \/ ServerAccept /\ CodecIdle
  \/ \E m \in ClientImports : ClientImport(m) /\ CodecIdle
  \/ \E i \in DOMAIN proxies, name \in ClientAttrs :
       ClientGetattr(i, name) /\ CodecIdle
  \/ \E i \in DOMAIN proxies \cap {1}, name \in LocalAttrs :
       ClientGetattr(i, name) /\ CodecIdle
  \/ \E i \in DOMAIN proxies, args \in ClientArgs :
       ClientCall(i, args) /\ CodecIdle
  \/ \E i \in DOMAIN proxies, key \in ClientKeys :
       ClientIndex(i, key) /\ CodecIdle
  \/ \E i \in DOMAIN proxies : ClientMaterialize(i) /\ CodecIdle
  \/ ServerTurn /\ CodecIdle
  \/ ClientRecv /\ CodecIdle
  \/ ChannelFail /\ CodecIdle
  \/ HandlerEnds /\ CodecIdle

\* One client and the server's handler for its connection.
ClientSpec == Init /\ [][ClientNext]_vars

\* recv returns or raises once it can: the event loop runs it.
ClientLive == ClientSpec /\ WF_vars(ClientRecv /\ CodecIdle)

\* The same, with the server's event loop starting the handler of a
\* connection whose handshake is done, and the handler's loop taking every
\* frame that has arrived: `async for message_data in websocket` resumes
\* the handler whenever the connection holds a frame.
\* sys.modules plays no part in connect, send and recv: the behaviours
\* start where the caller's program has imported nothing of its own.
ServedInit == Init /\ preloaded = {}

ServedLive ==
  /\ ServedInit
  /\ [][ClientNext]_vars
  /\ WF_vars(ServerAccept /\ CodecIdle)
  /\ WF_vars(ServerTurn /\ CodecIdle)
  /\ WF_vars(ClientRecv /\ CodecIdle)

(***************************************************************************)
(* client/proxy.py: a caller that inspects and materializes its objects.   *)
(***************************************************************************)
\* What the caller passes that is no proxy of a remote object: None, 0,
\* the module os, and the list [RPCProxy(obj_id=0)].
OwnObjects == {NoneV, IntV(0), ListV(<<Proxy(0)>>), Mod("os")}
\* The objects the caller has: its own and its proxies.
CallerObjects == OwnObjects \cup {<<"proxy", i>> : i \in DOMAIN proxies}

InspectNext ==
  \/ Run /\ ClientIdle
  \/ ClientConnect /\ CodecIdle
  \/ Handshake /\ CodecIdle
  \/ ConnectReturn /\ CodecIdle
  \/ ServerAccept /\ CodecIdle
  \/ \E m \in ClientImports : ClientImport(m) /\ CodecIdle
  \/ \E i \in DOMAIN proxies, name \in ClientAttrs :
       ClientGetattr(i, name) /\ CodecIdle
  \/ \E i \in DOMAIN proxies \cap {1}, name \in MockAttrs :
       ClientGetattr(i, name) /\ CodecIdle
  \/ \E obj \in CallerObjects : MaterializeOf(obj) /\ CodecIdle
  \/ \E obj \in CallerObjects : ClientIsProxy(obj) /\ CodecIdle
  \/ ServerTurn /\ CodecIdle
  \/ ClientRecv /\ CodecIdle

InspectSpec == Init /\ [][InspectNext]_vars

(***************************************************************************)
(* client/patcher.py: a connected client that patches and unpatches.       *)
(***************************************************************************)
PatchImports ==
  {<<"os">>, <<"json">>, <<"colorsys">>, <<"nomod">>, <<"clientlib">>}

PatchNext ==
  \/ Run /\ ClientIdle
  \/ ClientConnect /\ CodecIdle
  \/ Handshake /\ CodecIdle
  \/ ConnectReturn /\ CodecIdle
  \/ ServerAccept /\ CodecIdle
  \/ \E m \in PatchImports : ClientImport(m) /\ CodecIdle
  \/ ClientUnpatchAll /\ CodecIdle
  \/ ServerTurn /\ CodecIdle
  \/ ClientRecv /\ CodecIdle

PatchSpec == Init /\ [][PatchNext]_vars

(***************************************************************************)
(* client/connection.py: the module-level connect, get_connection and      *)
(* disconnect, with and without SIMPLERPC_TOKEN in the environment.        *)
(***************************************************************************)
ApiInit ==
  /\ InitServer /\ InitCaller /\ InitCodec
  /\ env_token \in TokenInputs

ApiNext ==
  \/ Run /\ ClientIdle
  \/ GetConnection /\ CodecIdle
  \/ \E arg \in TokenInputs : ConnectCall(arg) /\ CodecIdle
  \/ Handshake /\ CodecIdle
  \/ ConnectRefused /\ CodecIdle
  \/ ConnectReturn /\ CodecIdle
  \/ ServerAccept /\ CodecIdle
  \/ DisconnectCall /\ CodecIdle
  \/ DisconnectReturn /\ CodecIdle
  \/ HandlerEnds /\ CodecIdle
  \/ ChannelFail /\ CodecIdle

ApiSpec == ApiInit /\ [][ApiNext]_vars

(***************************************************************************)
(* common/serialization.py on its own: a value is serialized and the bytes *)
(* are deserialized, and the result is sent round once more.               *)
(***************************************************************************)
MaxTrips == 2     \* a value goes round at most this many times

Scalars ==
  {NoneV, BoolV(TRUE), BoolV(FALSE), IntV(0), IntV(-1), FloatV("3.14"),
   StrV(""), StrV("/"), ArrayV(<<1, 2, 3>>)}
\* The values at and beyond the limits of the encoding.
Limits ==
  {BigIntV, NaN, DeepListV} \cup {StrV(s) : s \in Unencodable}
\* The keys of the dicts that have other keys than strings.
Keys == {NoneV, BoolV(TRUE), IntV(1), IntV(-1), FloatV("3.14")}
\* The values found inside the containers.
Items ==
  {IntV(0), StrV("/"), Proxy(0), SliceV(<<IntV(0), IntV(1), NoneV>>)}
ItemSeqs ==
  {<<>>} \cup {<<x>> : x \in Items} \cup {<<x, y>> : x \in Items, y \in Items}
Flat ==
  {ListV(q) : q \in ItemSeqs} \cup {TupleV(q) : q \in ItemSeqs}
    \cup {MapV(<<>>)} \cup {MapV(<< <<"a", x>> >>) : x \in Items}
    \cup {MapV(<< <<"b", x>>, <<"a", y>> >>) : x \in Items, y \in Items}
    \cup {KeyedV(<< <<k, x>> >>) : k \in Keys, x \in Items}
    \cup {KeyedV(<< <<IntV(2), x>>, <<StrV("a"), y>> >>) :
             x \in Items, y \in Items}
    \cup {KeyedV(<< <<x, IntV(0)>> >>) : x \in {BigIntV, NaN}}
    \cup {MapV(<< <<s, IntV(0)>> >>) : s \in Unencodable}
    \cup {ListV(<<IntV(0), x>>) : x \in Limits}
    \cup {MapV(<< <<"a", x>> >>) : x \in Limits}
Inner ==
  {ListV(<<IntV(0)>>), TupleV(<<IntV(0)>>), TupleV(<<Proxy(2), StrV("/")>>),
   ListV(<<SliceV(<<NoneV, NoneV, NoneV>>)>>), MapV(<< <<"a", Proxy(1)>> >>),
   MapV(<< <<"a", TupleV(<<>>)>> >>)}
Nested ==
  {ListV(<<x>>) : x \in Inner} \cup {TupleV(<<x, IntV(0)>>) : x \in Inner}
    \cup {MapV(<< <<"k", x>> >>) : x \in Inner}
    \cup {KeyedV(<< <<IntV(0), x>> >>) : x \in Inner}
CodecInputs ==
  Scalars \cup Limits \cup {Proxy(0), SliceV(<<IntV(0), NoneV, IntV(-1)>>)}
    \cup Flat \cup Nested

\* The value the next serialize is given: the original, or what the last
\* deserialize returned.
Current == IF results = <<>> THEN plain ELSE results[Len(results)]

\* data = serialize(value)
DoSerialize ==
  /\ data = NoData
  /\ Len(results) < MaxTrips
  /\ data' = Serialize(Current)
  /\ UNCHANGED <<plain, results>>
  /\ UNCHANGED <<serverVars, clientVars>>

\* deserialize(data)
DoDeserialize ==
  /\ IsOk(data)
  /\ results' = Append(results, Deserialize(data[2]))
  /\ data' = NoData
  /\ UNCHANGED plain
  /\ UNCHANGED <<serverVars, clientVars>>

\* A value that holds an RPCProxy exists once RPCProxy.__init__ has called
\* get_connection().
CodecInit ==
  /\ plain \in CodecInputs
  /\ InitServer
  /\ InitCallerHaving(IF HoldsProxy(plain) THEN 1 ELSE 0)
  /\ env_token = NoToken
  /\ data = NoData
  /\ results = <<>>

CodecNext == DoSerialize \/ DoDeserialize

CodecSpec == CodecInit /\ [][CodecNext]_vars

(***************************************************************************)
(* Properties                                                              *)
(***************************************************************************)
Answered == lastEv = "response"
Handled == lastEv \in {"response", "crash"}
Typed(req) == "type" \in DOMAIN req
ReqType(req) == IF Typed(req) THEN req.type ELSE ""
IsSuccess(resp) == resp.type = "success"
IsError(resp) == resp.type = "error"
StrictlyIncreasing(seq) ==
  \A i, j \in DOMAIN seq : i < j => seq[i] < seq[j]

\* C1: in every executor the obj_ids returned so far, in the order they were
\* returned, are strictly increasing: each success response of
\* import_module, getattr, call or getitem carries an id greater than every
\* id that executor returned before.
C1_FreshIds ==
  /\ \A c \in DOMAIN issued : StrictlyIncreasing(issued[c])
  /\ (Answered /\ "obj_id" \in DOMAIN lastResp) =>
       /\ ReqType(lastReq) \in {"import_module", "getattr", "call", "getitem"}
       /\ Len(issued[lastConn]) > 0
       /\ issued[lastConn][Len(issued[lastConn])] = lastResp.obj_id

\* A getitem answered with the third id of its executor.
C1_Witness ==
  /\ Answered
  /\ ReqType(lastReq) = "getitem"
  /\ IsSuccess(lastResp)
  /\ issued[lastConn] = <<0, 1, 2>>

\* A getattr, call, getitem or materialize step whose obj_id the receiving
\* executor has not stored.
UnknownIdStep ==
  /\ lastEv' \in {"response", "crash"}
  /\ Typed(lastReq')
  /\ ReqType(lastReq') \in {"getattr", "call", "getitem", "materialize"}
  /\ "obj_id" \in DOMAIN lastReq'
  /\ lastReq'.obj_id \notin DOMAIN executors[lastConn'].objects

\* C2: a getattr, call, getitem or materialize request naming an obj_id the
\* executor never stored is answered with an error response; no object is
\* resolved for it: nothing is called and the executor is left as it was.
C2_UnknownIdFaults ==
  [][UnknownIdStep =>
       /\ lastEv' = "response"
       /\ IsError(lastResp')
       /\ lastExc' = "KeyError"
       /\ lastCallee' = <<>>
       /\ executors' = executors]_vars

\* materialize of id -1 on an executor that holds objects: a KeyError.
C2_Witness ==
  /\ Answered
  /\ ReqType(lastReq) = "materialize"
  /\ "obj_id" \in DOMAIN lastReq /\ lastReq.obj_id = -1
  /\ executors[lastConn].next_obj_id >= 2
  /\ IsError(lastResp)
  /\ lastExc = "KeyError"

\* v with every reference marker of a stored object replaced by the object.
RECURSIVE Resolved(_, _)
Resolved(ex, v) ==
  CASE Tag(v) = "dict" /\ v[2] = "__rpc_proxy__" ->
         IF v[3] \in DOMAIN ex.objects THEN ex.objects[v[3]] ELSE v
    [] Tag(v) = "list" -> ListV([i \in DOMAIN v[2] |-> Resolved(ex, v[2][i])])
    [] OTHER -> v

\* C3: when a call request's arguments hold, at any depth, the marker of a
\* proxy to a stored object, the callee is invoked with the stored object in
\* its place.
C3_ProxyArgsResolved ==
  (Answered /\ ReqType(lastReq) = "call" /\ lastCallee # <<>>) =>
     LET ex == executors[lastConn]
         args == lastReq.args[2]
         kwargs == lastReq.kwargs
     IN /\ lastCallee[2] = [i \in DOMAIN args |-> Resolved(ex, args[i])]
        /\ lastCallee[3] = [k \in DOMAIN kwargs |-> Resolved(ex, kwargs[k])]

Range(seq) == {seq[i] : i \in DOMAIN seq}

\* C4: a request naming an obj_id that another connection's executor issued
\* is answered with an error response.
C4_ForeignIdFaults ==
  (Answered /\ Typed(lastReq) /\ ReqType(lastReq) \in Recognised
     /\ "obj_id" \in DOMAIN lastReq
     /\ \E d \in DOMAIN issued \ {lastConn} : lastReq.obj_id \in Range(issued[d]))
  => IsError(lastResp)

\* A step that handled a deserialized message and in which an exception was
\* raised.
RaisingStep ==
  /\ lastEv' \in {"response", "crash"}
  /\ "garbage" \notin DOMAIN lastReq'
  /\ lastExc' # ""

\* What C5 promises of such a step: an error response with the message and
\* the trace, the connection open, the executor in place and as it was.
FaultContained ==
  /\ lastEv' = "response"
  /\ IsError(lastResp')
  /\ lastResp'.error = lastExc'
  /\ "traceback" \in DOMAIN lastResp' /\ lastResp'.traceback # ""
  /\ conn'[lastConn'] = "open"
  /\ lastConn' \in DOMAIN executors'
  /\ executors'[lastConn'] = executors[lastConn']

\* C5: whenever the operation of a request raises, the fault is contained.
C5_AnyFaultContained == [][RaisingStep => FaultContained]_vars

\* C6: a request whose type is not a recognised one is answered with the
\* error "Unknown message type: <type>"; the handler does not crash and the
\* connection and its executor stay as they were.
C6_UnknownTypeAnswered ==
  [][(lastEv' \in {"response", "crash"} /\ Typed(lastReq')
        /\ ReqType(lastReq') \notin Recognised)
     => /\ lastEv' = "response"
        /\ IsError(lastResp')
        /\ lastResp'.error = "Unknown message type: " \o lastReq'.type
        /\ conn'[lastConn'] = "open"
        /\ lastConn' \in DOMAIN executors'
        /\ executors'[lastConn'] = executors[lastConn']]_vars

\* An unknown type answered on an executor that holds objects.
C6_Witness ==
  /\ Answered
  /\ ReqType(lastReq) = "bogus"
  /\ IsError(lastResp)
  /\ executors[lastConn].next_obj_id >= 1

Malformed(req) ==
  \/ "garbage" \in DOMAIN req
  \/ "nonmapping" \in DOMAIN req
  \/ ~Typed(req)
  \/ /\ req.type = "import_module" /\ Missing(req, {"module"})
  \/ /\ req.type = "getattr" /\ Missing(req, {"path", "attr"})
  \/ /\ req.type = "call" /\ Missing(req, {"path", "args", "kwargs"})
  \/ /\ req.type = "getitem" /\ Missing(req, {"obj_id", "key"})
  \/ /\ req.type = "materialize" /\ Missing(req, {"obj_id"})

\* C7: every malformed request is answered with an error response and the
\* connection stays open.
C7_MalformedAnswered ==
  (Handled /\ Malformed(lastReq)) =>
     /\ Answered
     /\ IsError(lastResp)
     /\ conn[lastConn] = "open"

\* An error response that marks a protocol-level fault: it has no traceback.
ProtocolFault(resp) == IsError(resp) /\ "traceback" \notin DOMAIN resp

\* C8: the response to an unrecognised type is a protocol fault, the
\* response to a request whose handling raised is an error that is not one:
\* the traceback field tells them apart.
C8_FaultKindsDistinct ==
  Answered =>
    /\ (Typed(lastReq) /\ ReqType(lastReq) \notin Recognised) => ProtocolFault(lastResp)
    /\ lastExc # "" => (IsError(lastResp) /\ ~ProtocolFault(lastResp))

\* An operation's fault, answered with a traceback.
C8_Witness ==
  /\ Answered
  /\ ReqType(lastReq) = "getitem"
  /\ lastExc = "IndexError"
  /\ "traceback" \in DOMAIN lastResp

\* C9: a connection whose token differs from the server's has no executor,
\* is never open, and no request of it is dispatched or answered.
C9_BadTokenRejected ==
  \A c \in Conns :
    (conn[c] \notin {"closed", "pending", "unserved"}
       /\ token[c] # ServerToken) =>
       /\ conn[c] = "rejected"
       /\ c \notin DOMAIN executors
       /\ c \notin DOMAIN issued
       /\ ~(Handled /\ lastConn = c)

\* A rejected connection beside one that is being served.
C9_Witness ==
  /\ conn["c1"] = "rejected"
  /\ token["c1"] = "guess"
  /\ lastEv = "reject"
  /\ conn["c2"] = "open"
  /\ executors["c2"].next_obj_id >= 1

\* C10: a response of handle_message is a success with an obj_id and no
\* value (import_module, getattr, call, getitem), a success with a value and
\* no obj_id (materialize), or an error with a message and neither.
C10_ResponseShapes ==
  Answered =>
    \/ /\ IsSuccess(lastResp)
       /\ DOMAIN lastResp = {"type", "obj_id"}
       /\ ReqType(lastReq) \in {"import_module", "getattr", "call", "getitem"}
    \/ /\ IsSuccess(lastResp)
       /\ DOMAIN lastResp = {"type", "value"}
       /\ ReqType(lastReq) = "materialize"
    \/ /\ IsError(lastResp)
       /\ "error" \in DOMAIN lastResp
       /\ DOMAIN lastResp \subseteq {"type", "error", "traceback"}

\* A materialize answered with the value.
C10_Witness ==
  /\ Answered
  /\ ReqType(lastReq) = "materialize"
  /\ IsSuccess(lastResp)
  /\ lastResp.value = StrV("/")

\* The outcome of request m on executor ex is the same under every path.
PathIgnored(ex, m) ==
  \A p \in PathInputs : HandleMessage(ex, WithPath(m, p)) = HandleMessage(ex, m)

\* A call request that addresses a stored object that is not callable.
CallsMethodOf(ex, m) ==
  /\ m.type = "call"
  /\ m.obj_id \in DOMAIN ex.objects
  /\ ~PyCallable(ex.objects[m.obj_id])

\* C11 as stated: on every executor, a getattr or call request that carries
\* an obj_id has the same outcome whatever its path.
C11_PathIrrelevant ==
  \A c \in DOMAIN executors :
    \A m \in GetattrIdMsgs \cup CallIdMsgs : PathIgnored(executors[c], m)

\* C11 amended: on every executor, a getattr request that carries an obj_id,
\* and a call request whose obj_id does not name a stored non-callable
\* object, has the same outcome whatever its path.
C11_PathIgnoredUnlessMethod ==
  \A c \in DOMAIN executors :
    \A m \in GetattrIdMsgs \cup CallIdMsgs :
      ~CallsMethodOf(executors[c], m) => PathIgnored(executors[c], m)

\* A call of a stored function, sent with a path, has been answered.
C11_Witness ==
  /\ Answered
  /\ ReqType(lastReq) = "call"
  /\ "obj_id" \in DOMAIN lastReq
  /\ lastReq.path = <<"os", "fspath">>
  /\ lastCallee # <<>>
  /\ lastCallee[1] = Fn("fspath")
  /\ IsSuccess(lastResp)

\* C13: a materialize request for a stored value that cannot be serialized
\* is answered with an error response that carries no value, and the
\* connection stays open with its executor; a materialize request never
\* ends the handler.
C13_UnserializableFaults ==
  (Handled /\ ReqType(lastReq) = "materialize") =>
     /\ Answered
     /\ conn[lastConn] = "open"
     /\ lastConn \in DOMAIN executors
     /\ LET objects == executors[lastConn].objects
        IN ("obj_id" \in DOMAIN lastReq /\ lastReq.obj_id \in DOMAIN objects
              /\ ~Packable(ConvertProxies(objects[lastReq.obj_id])))
           => /\ IsError(lastResp)
              /\ "value" \notin DOMAIN lastResp
              /\ lastExc = "TypeError"

\* materialize of a stored function was answered with an error.
C13_Witness ==
  /\ Answered
  /\ ReqType(lastReq) = "materialize"
  /\ "obj_id" \in DOMAIN lastReq
  /\ lastReq.obj_id \in DOMAIN executors[lastConn].objects
  /\ Tag(executors[lastConn].objects[lastReq.obj_id]) = "function"
  /\ IsError(lastResp)

\* C15: a step taken for one connection leaves the executor of every other
\* connection in place and unchanged: its registry, its id counter and its
\* namespace.
C15_Isolation ==
  [][\A c \in DOMAIN executors :
       c # lastConn' => (c \in DOMAIN executors' /\ executors'[c] = executors[c])
    ]_vars

\* C16: the keys of RPCServer.executors are exactly the connections that
\* were accepted and whose handler has not ended; while an executor is
\* there, every id it has issued is still stored, its registry holding the
\* ids 0 .. next_obj_id - 1.
C16_ExecutorsAreRunningHandlers ==
  /\ DOMAIN executors = {c \in Conns : conn[c] \in {"open", "closing"}}
  /\ DOMAIN issued = DOMAIN executors
  /\ \A c \in DOMAIN executors :
       /\ DOMAIN executors[c].objects = 0 .. executors[c].next_obj_id - 1
       /\ Range(issued[c]) = DOMAIN executors[c].objects

\* A connection has ended and its executor is gone, while the other one is
\* served and keeps its objects.
C16_Witness ==
  /\ lastEv \in {"disconnect", "crash"}
  /\ lastConn = "c1"
  /\ DOMAIN executors = {"c2"}
  /\ executors["c2"].next_obj_id = 2

\* C20: a getitem request whose key is a slice marker, on a stored string,
\* is answered with a reference to the sub-range the slice selects.
C20_SliceResolved ==
  (Handled /\ ReqType(lastReq) = "getitem" /\ "key" \in DOMAIN lastReq
     /\ Tag(lastReq.key) = "dict" /\ lastReq.key[2] = "__slice__"
     /\ "obj_id" \in DOMAIN lastReq /\ lastConn \in DOMAIN executors
     /\ lastReq.obj_id \in DOMAIN executors[lastConn].objects
     /\ Tag(executors[lastConn].objects[lastReq.obj_id]) = "str")
  => /\ Answered
     /\ IsSuccess(lastResp)
     /\ LET objects == executors[lastConn].objects
        IN objects[lastResp.obj_id] =
             PyGetitem(objects[lastReq.obj_id], SliceV(lastReq.key[3]))[2]

\* The client's operation has finished with a response of the server.
GotResponse ==
  /\ pc = "idle"
  /\ op.id >= 0
  /\ \/ returned[1] \in {"proxy", "value"}
     \/ returned[1] = "raise" /\ returned[2] = "RemoteException"

\* v holds no tuple and no slice: scalars and lists only.
RECURSIVE PlainData(_)
PlainData(v) ==
  CASE Tag(v) \in {"tuple", "slice", "RPCProxy", "module", "function"} -> FALSE
    [] Tag(v) = "list" -> \A i \in DOMAIN v[2] : PlainData(v[2][i])
    [] OTHER -> TRUE

\* C12: when materialize(proxy) returns a value, the proxy's obj_id names a
\* stored value v, the server's response was a success carrying exactly v,
\* and for v made of scalars and nested lists the value returned to the
\* caller is v.
C12_MaterializeExact ==
  (GotResponse /\ op.kind = "materialize" /\ returned[1] = "value"
     /\ ClientConn \in DOMAIN executors)
  => LET k == proxies[op.src].obj_id
         objects == executors[ClientConn].objects
     IN /\ k \in DOMAIN objects
        /\ lastResp = [type |-> "success", value |-> objects[k]]
        /\ PlainData(objects[k]) => returned[2] = objects[k]

\* materialize has returned the nested list [["/"]].
C12_Witness ==
  /\ GotResponse
  /\ op.kind = "materialize"
  /\ returned = <<"value", ListV(<<ListV(<<StrV("/")>>)>>)>>
  /\ ClientConn \in DOMAIN executors
  /\ executors[ClientConn].objects[proxies[op.src].obj_id] = returned[2]

\* C14: at most one frame is in flight between the client and the server,
\* and it belongs to the operation that is waiting; the server reads the
\* requests in the order of their ids; and a response handed to the caller
\* is the response to the request that the operation sent.
C14_OneInFlightInOrder ==
  /\ Len(wire) + Len(back) <= 1
  /\ pc = "idle" => (wire = <<>> /\ back = <<>>)
  /\ \A i \in DOMAIN wire : wire[i].id = PyStr(op.id)
  /\ \A i \in DOMAIN back : back[i].id = op.id
  /\ StrictlyIncreasing(handledIds)
  /\ \A i \in DOMAIN handledIds : handledIds[i] < request_id
  /\ GotResponse => (retFor = op.id /\ handledIds[Len(handledIds)] = op.id)

\* The third request in a row has been answered and its response returned.
C14_Witness ==
  /\ GotResponse
  /\ handledIds = <<0, 1, 2>>
  /\ retFor = 2
  /\ returned[1] = "proxy"

\* C17: a Connection.send that waits for its response while the connection
\* is closed returns to its caller by raising ConnectionClosed.
C17_BlockedSendUnblocks ==
  (pc = "waiting" /\ ~LinkUp(conn[ClientConn]))
    ~> (pc = "idle" /\ returned[1] = "raise" /\ returned[2] = "ConnectionClosed")

\* A request was sent and the recv that followed it raised.
C17_Witness ==
  /\ pc = "idle"
  /\ opSent # <<>>
  /\ returned[1] = "raise"
  /\ returned[2] = "ConnectionClosed"

\* The request an operation of each kind is said to send.
RequestOf(kind) ==
  CASE kind = "getattr" -> "getattr"
    [] kind = "call" -> "call"
    [] kind = "index" -> "getitem"

\* C18: an attribute access (name without a leading underscore), a call or
\* an index operation that was not cut short by the transport has sent
\* exactly one request, a getattr, call or getitem respectively, and a proxy
\* it returned carries the obj_id of the response.
C18_OneRequestPerOperation ==
  (pc = "idle" /\ ws /\ op.kind \in {"getattr", "call", "index"}
     /\ op.name \notin Underscored /\ returned[1] # "raise")
  => /\ opSent = <<RequestOf(op.kind)>>
     /\ returned[1] = "proxy"
     /\ proxies[returned[2]].obj_id = lastResp.obj_id

\* C19: an access to an attribute whose name starts with an underscore has
\* sent no request: it was answered at once with a child proxy, and nothing
\* is in flight.
C19_UnderscoreIsLocal ==
  (op.kind = "getattr" /\ op.name \in Underscored)
  => /\ pc = "idle"
     /\ opSent = <<>>
     /\ op.id = -1
     /\ returned = <<"child", op.name>>
     /\ wire = <<>> /\ back = <<>>
     /\ HasProxy([path |-> op.path, obj_id |-> proxies[op.src].obj_id])

\* _private was read on a proxy of a connected client.
C19_Witness ==
  /\ op.kind = "getattr"
  /\ op.name = "_private"
  /\ returned = <<"child", "_private">>
  /\ conn[ClientConn] = "open"
  /\ request_id >= 1
  /\ HasProxy([path |-> <<"os", "_private">>, obj_id |-> 0])

\* C23: when the operation of a request raises, the error response returned
\* by handle_message has the fields exception_type, exception_message and
\* traceback.
C23_ErrorFields ==
  (Answered /\ lastExc # "")
  => {"exception_type", "exception_message", "traceback"}
       \subseteq DOMAIN lastResp

\* C30: an import_module request for an importable dotted name is answered
\* with success, and the object registered under the returned obj_id is the
\* top-level package, the module named by the part before the first dot.
C30_DottedImportStoresTop ==
  (Handled /\ ReqType(lastReq) = "import_module"
     /\ "module" \in DOMAIN lastReq
     /\ Len(lastReq.module) > 1 /\ lastReq.module \in Importable)
  => /\ Answered
     /\ IsSuccess(lastResp)
     /\ lastResp.obj_id \in DOMAIN executors[lastConn].objects
     /\ executors[lastConn].objects[lastResp.obj_id] = Mod(Head(lastReq.module))

\* "os.path" was imported after another object had been stored.
C30_Witness ==
  /\ Answered
  /\ ReqType(lastReq) = "import_module"
  /\ "module" \in DOMAIN lastReq
  /\ lastReq.module = <<"os", "path">>
  /\ IsSuccess(lastResp)
  /\ lastResp.obj_id = 1
  /\ executors[lastConn].objects[1] = Mod("os")

\* C24: an operation that received an error response has raised
\* RemoteException with the server's message and traceback text, has
\* returned no proxy and no value, and the cause of the exception is an
\* exception of the class raised on the server.
C24_RemoteExceptionCarriesCause ==
  (GotResponse /\ retFor = op.id /\ IsError(lastResp))
  => /\ returned[1] = "raise"
     /\ returned[2] = "RemoteException"
     /\ returned[3].message = lastResp.error
     /\ returned[3].remote_traceback = StrV(lastResp.traceback)
     /\ returned[3].cause = lastExc

\* v is built from None, booleans, integers, floats, strings, sequences,
\* mappings and numeric arrays.
RECURSIVE Built(_)
Built(v) ==
  CASE Tag(v) \in {"None", "bool", "int", "bigint", "float", "str",
                   "ndarray", "deeplist"} -> TRUE
    [] Tag(v) \in {"list", "tuple"} -> \A i \in DOMAIN v[2] : Built(v[2][i])
    [] Tag(v) = "map" -> \A i \in DOMAIN v[2] : Built(v[2][i][2])
    [] Tag(v) = "kmap" ->
         \A i \in DOMAIN v[2] : Built(v[2][i][1]) /\ Built(v[2][i][2])
    [] OTHER -> FALSE

\* v holds a tuple somewhere.
RECURSIVE HasTuple(_)
HasTuple(v) ==
  CASE Tag(v) = "tuple" -> TRUE
    [] Tag(v) = "list" -> \E i \in DOMAIN v[2] : HasTuple(v[2][i])
    [] Tag(v) \in {"map", "kmap"} ->
         \E i \in DOMAIN v[2] : HasTuple(v[2][i][2])
    [] OTHER -> FALSE

\* v holds nan somewhere.
RECURSIVE HasNaN(_)
HasNaN(v) ==
  CASE v = NaN -> TRUE
    [] Tag(v) \in {"list", "tuple"} -> \E i \in DOMAIN v[2] : HasNaN(v[2][i])
    [] Tag(v) = "map" -> \E i \in DOMAIN v[2] : HasNaN(v[2][i][2])
    [] Tag(v) = "kmap" ->
         \E i \in DOMAIN v[2] : v[2][i][1] = NaN \/ HasNaN(v[2][i][2])
    [] OTHER -> FALSE

\* v is within the limits of the encoding: every integer in it is one of
\* -2**63 .. 2**64-1, every string in it, keys included, is one UTF-8
\* encodes, and its nesting is within what _convert_proxies and packb walk.
RECURSIVE Fits(_)
Fits(v) ==
  CASE Tag(v) \in {"bigint", "deeplist"} -> FALSE
    [] Tag(v) = "str" -> v[2] \notin Unencodable
    [] Tag(v) \in {"list", "tuple"} -> \A i \in DOMAIN v[2] : Fits(v[2][i])
    [] Tag(v) = "map" ->
         \A i \in DOMAIN v[2] :
           v[2][i][1] \notin Unencodable /\ Fits(v[2][i][2])
    [] Tag(v) = "kmap" ->
         \A i \in DOMAIN v[2] : Fits(v[2][i][1]) /\ Fits(v[2][i][2])
    [] OTHER -> TRUE

\* v == w as Python evaluates it for two objects that share no part: nan
\* equals nothing, containers are equal when they are of one kind and
\* their parts are equal, and any other two values when they are the same.
RECURSIVE PyEq(_, _)
PyEq(v, w) ==
  CASE v = NaN -> FALSE
    [] Tag(v) \in {"list", "tuple"} ->
         /\ Tag(w) = Tag(v)
         /\ Len(w[2]) = Len(v[2])
         /\ \A i \in DOMAIN v[2] : PyEq(v[2][i], w[2][i])
    [] Tag(v) = "map" ->
         /\ Tag(w) = "map"
         /\ Len(w[2]) = Len(v[2])
         /\ \A i \in DOMAIN v[2] :
              w[2][i][1] = v[2][i][1] /\ PyEq(v[2][i][2], w[2][i][2])
    [] Tag(v) = "kmap" ->
         /\ Tag(w) = "kmap"
         /\ Len(w[2]) = Len(v[2])
         /\ \A i \in DOMAIN v[2] :
              PyEq(v[2][i][1], w[2][i][1]) /\ PyEq(v[2][i][2], w[2][i][2])
    [] OTHER -> Tag(w) = Tag(v) /\ w = v

\* C21 as stated: for a value built from None, booleans, integers, floats,
\* strings, sequences, mappings and numeric arrays, serialize returns,
\* deserialize(serialize(v)) equals v, and so does the result of going
\* round a second time.
C21_RoundTrip ==
  Built(plain)
  => /\ data[1] # "raise"
     /\ \A i \in DOMAIN results : PyEq(plain, results[i])

\* C21: for a value built from None, booleans, integers, floats, strings,
\* lists, mappings and numeric arrays, that holds no tuple and no nan and
\* is within the limits of the encoding,
\* serialize returns, deserialize(serialize(v)) equals v, and so does the
\* result of going round a second time.
C21_RoundTripWithinLimits ==
  (Built(plain) /\ ~HasTuple(plain) /\ ~HasNaN(plain) /\ Fits(plain))
  => /\ data[1] # "raise"
     /\ \A i \in DOMAIN results : PyEq(plain, results[i])

\* A mapping with integer keys that holds a list has gone round twice.
C21_Witness ==
  /\ plain = KeyedV(<< <<IntV(0), ListV(<<IntV(0)>>)>> >>)
  /\ Len(results) = 2
  /\ results[2] = plain

\* w is v with a reference marker in the place of every RPCProxy and a
\* slice marker in the place of every slice, and nothing else changed.
RECURSIVE Marked(_, _)
Marked(v, w) ==
  CASE Tag(v) = "RPCProxy" ->
         w[1] = "dict" /\ w[2] = "__rpc_proxy__" /\ w[3] = v[2]
    [] Tag(v) = "slice" ->
         /\ w[1] = "dict" /\ w[2] = "__slice__"
         /\ w[3][1] = v[2][1] /\ w[3][2] = v[2][2] /\ w[3][3] = v[2][3]
    [] Tag(v) \in {"list", "tuple"} ->
         /\ Tag(w) = Tag(v)
         /\ Len(w[2]) = Len(v[2])
         /\ \A i \in DOMAIN v[2] : Marked(v[2][i], w[2][i])
    [] Tag(v) \in {"map", "kmap"} ->
         /\ Tag(w) = Tag(v)
         /\ Len(w[2]) = Len(v[2])
         /\ \A i \in DOMAIN v[2] :
              w[2][i][1] = v[2][i][1] /\ Marked(v[2][i][2], w[2][i][2])
    [] OTHER -> w = v

\* C22: what serialize packs is the value with every RPCProxy inside it
\* replaced by a reference marker carrying the proxy's obj_id and every
\* slice by a slice marker carrying start, stop and step; lists, tuples and
\* dicts keep their kind, length, keys and order, every other value is
\* unchanged.  serialize returns for every value within the limits of the
\* encoding, and for no other.
C22_MarkersPreserveShape ==
  (data # NoData /\ results = <<>>)
  => /\ IsOk(data) <=> Fits(plain)
     /\ IsOk(data) => Marked(plain, data[2])

\* A tuple holding a dict that holds a proxy has been serialized.
C22_Witness ==
  /\ plain = TupleV(<<MapV(<< <<"a", Proxy(1)>> >>), IntV(0)>>)
  /\ data = Ok(TupleV(<<MapV(<< <<"a", ProxyMarker(1)>> >>), IntV(0)>>))

\* The proxy the latest patch_module(name) that asked the server returned.
LastProxyFor(name) ==
  CHOOSE i \in DOMAIN proxies :
    /\ proxies[i].path = name
    /\ \A j \in DOMAIN proxies : j > i => proxies[j].path # name

\* C25: a patch_module(name) called while name is patched sends no request
\* and returns at once the proxy object the patch_module(name) that
\* patched it returned.
C25_RepatchIsLocal ==
  [][(/\ pc = "idle"
      /\ op'.kind = "import"
      /\ op'.path \in DOMAIN original_modules
      /\ op' # op \/ pc' # pc \/ returned' # returned \/ opSent' # opSent)
     => /\ pc' = "idle"
        /\ request_id' = request_id
        /\ wire' = wire
        /\ opSent' = <<>>
        /\ returned'[1] = "proxy"
        /\ returned'[2] = LastProxyFor(op'.path)
        /\ proxies' = proxies]_vars

\* "os" was patched with one request, "colorsys" after it, and a second
\* patch_module("os") has returned the first proxy.
C25_Witness ==
  /\ pc = "idle"
  /\ op.kind = "import"
  /\ op.path = <<"os">>
  /\ opSent = <<>>
  /\ request_id = 2
  /\ Len(proxies) = 2
  /\ returned = <<"proxy", 1>>

\* C26: when unpatch_all has run, sys.modules is what it was before the
\* first patch_module: a patched name that was absent is absent, a patched
\* name that was present is bound to its original module and not to a
\* proxy; the record of originals is empty.  That holds after every
\* unpatch_all, so a further one changes nothing.
C26_UnpatchRestores ==
  op.kind = "unpatch_all"
  => /\ sys_modules = ModulesAtStart(preloaded)
     /\ DOMAIN original_modules = {}

\* "os", present before, and "colorsys", absent before, were patched and
\* unpatch_all has run.
C26_Witness ==
  /\ op.kind = "unpatch_all"
  /\ \E i, j \in DOMAIN proxies :
       proxies[i].path = <<"os">> /\ proxies[j].path = <<"colorsys">>
  /\ <<"colorsys">> \notin DOMAIN sys_modules
  /\ sys_modules[<<"os">>] = Mod("os")

\* C27: get_connection returns the instance the global names, and the
\* global names the same instance until disconnect: it changes only from
\* None to an instance constructed in that step, different from every
\* earlier one, and to None in a disconnect.  After disconnect the global is
\* None and the connection is closed; a disconnect that finds no
\* connection changes nothing and returns normally.
C27_OneConnectionUntilDisconnect ==
  /\ [](op.kind = "get_connection"
          => connection # 0 /\ returned = <<"connection", connection>>)
  /\ []((op.kind = "disconnect" /\ pc = "idle")
          => /\ connection = 0
             /\ returned[1] = "value"
             /\ ~LinkUp(conn[ClientConn]))
  /\ [][connection' # connection
          => \/ connection = 0 /\ made' = made + 1 /\ connection' = made'
             \/ connection' = 0 /\ op'.kind = "disconnect"]_vars
  /\ [][(op'.kind = "disconnect" /\ op' # op /\ connection = 0)
          => UNCHANGED <<connection, made, ws, loop, request_id, serverVars>>]_vars

\* After a disconnect, get_connection has returned a second instance.
C27_Witness ==
  /\ op.kind = "get_connection"
  /\ made = 2
  /\ returned = <<"connection", 2>>
  /\ lastEv = "disconnect"

\* C28: the connection a connect opens presents the token the connect was
\* given, or SIMPLERPC_TOKEN when it was given none; a connect that finds
\* neither has raised ValueError when it ends, and one that finds a token
\* has set loop and has not raised ValueError; the step that raises
\* ValueError attempts no connection: ws, loop and the server are as they
\* were.
C28_TokenSource ==
  /\ []((op.kind = "connect" /\ pc = "idle")
          => IF op.name = NoToken /\ env_token = NoToken
             THEN returned = <<"raise", "ValueError">>
             ELSE /\ returned # <<"raise", "ValueError">>
                  /\ loop
                  /\ returned[1] # "raise" => ws)
  /\ [][(conn'[ClientConn] = "pending" /\ conn[ClientConn] # "pending")
          => /\ op.kind = "connect"
             /\ token'[ClientConn] =
                  IF op.name # NoToken THEN op.name ELSE env_token]_vars
  /\ [][(op'.kind = "connect" /\ returned' = <<"raise", "ValueError">>
           /\ pc' = "idle" /\ (op' # op \/ returned' # returned))
          => UNCHANGED <<ws, loop, wire, back, serverVars>>]_vars

\* A first connect without a token, in an environment without one, has
\* raised on a new Connection.
C28_Witness ==
  /\ op.kind = "connect"
  /\ op.name = NoToken
  /\ returned = <<"raise", "ValueError">>
  /\ connection = 1
  /\ ~ws /\ ~loop
  /\ lastEv = "init"

\* C29: a connect that returns normally returns the connection handle, the
\* Connection the global names.
C29_ConnectReturnsHandle ==
  (op.kind = "connect" /\ pc = "idle" /\ returned[1] # "raise")
  => returned[1] = "connection" /\ returned[2] = connection

\* C33: in every executor the keys of the registry are exactly
\* 0 .. next_obj_id - 1 and the k-th id it returned is k - 1; an executor
\* starts with an empty registry and next_obj_id 0; and while an executor
\* lives, every id it has stored stays in the registry, mapped to the same
\* object.
C33_RegistryDense ==
  /\ [](\A c \in DOMAIN executors :
          /\ DOMAIN executors[c].objects = 0 .. executors[c].next_obj_id - 1
          /\ Len(issued[c]) = executors[c].next_obj_id
          /\ \A k \in DOMAIN issued[c] : issued[c][k] = k - 1)
  /\ [][/\ \A c \in DOMAIN executors' \ DOMAIN executors :
             /\ DOMAIN executors'[c].objects = {}
             /\ executors'[c].next_obj_id = 0
        /\ \A c \in DOMAIN executors \cap DOMAIN executors' :
             \A k \in DOMAIN executors[c].objects :
               /\ k \in DOMAIN executors'[c].objects
               /\ executors'[c].objects[k] = executors[c].objects[k]]_vars

\* An executor that has stored three objects under the ids 0, 1 and 2, the
\* last of them by a getattr.
C33_Witness ==
  /\ Answered
  /\ ReqType(lastReq) = "getattr"
  /\ IsSuccess(lastResp)
  /\ lastResp.obj_id = 2
  /\ DOMAIN executors[lastConn].objects = {0, 1, 2}
  /\ executors[lastConn].next_obj_id = 3

\* C34: a request answered with an error response leaves the registry and
\* next_obj_id of the executor that handled it as they were before the
\* request, and no id is recorded as returned.
C34_ErrorAllocatesNothing ==
  [][(lastEv' = "response" /\ IsError(lastResp')) =>
       /\ lastConn' \in DOMAIN executors
       /\ executors'[lastConn'].objects = executors[lastConn'].objects
       /\ executors'[lastConn'].next_obj_id = executors[lastConn'].next_obj_id
       /\ issued' = issued]_vars

\* A getitem on a stored object whose index is out of range, answered with
\* an error by an executor that holds two objects.
C34_Witness ==
  /\ Answered
  /\ ReqType(lastReq) = "getitem"
  /\ "obj_id" \in DOMAIN lastReq
  /\ lastReq.obj_id \in DOMAIN executors[lastConn].objects
  /\ IsError(lastResp)
  /\ lastExc = "IndexError"
  /\ executors[lastConn].next_obj_id = 2

\* C35: a materialize request, answered with success or with an error,
\* leaves the registry and next_obj_id as they were; a successful one
\* returns the object the registry holds under the obj_id, so repeating it
\* returns the same value as long as the registry entry is the same.
C35_MaterializeReadsOnly ==
  [][(lastEv' = "response" /\ ReqType(lastReq') = "materialize") =>
       /\ lastConn' \in DOMAIN executors
       /\ executors'[lastConn'] = executors[lastConn']
       /\ issued' = issued
       /\ IsSuccess(lastResp') =>
            /\ "obj_id" \in DOMAIN lastReq'
            /\ lastReq'.obj_id \in DOMAIN executors[lastConn'].objects
            /\ lastResp'.value = executors[lastConn'].objects[lastReq'.obj_id]
            /\ lastResp'.value = executors'[lastConn'].objects[lastReq'.obj_id]
      ]_vars

\* A string stored under id 1 has just been materialized.
C35_Witness ==
  /\ Answered
  /\ ReqType(lastReq) = "materialize"
  /\ IsSuccess(lastResp)
  /\ lastReq.obj_id = 1
  /\ lastResp.value = StrV("/")
  /\ executors[lastConn].next_obj_id = 2

\* A getattr or call without an obj_id whose path starts with a name the
\* executor of the connection has not bound by an import_module.
UnimportedPath ==
  /\ Answered
  /\ ReqType(lastReq) \in {"getattr", "call"}
  /\ "obj_id" \notin DOMAIN lastReq
  /\ "path" \in DOMAIN lastReq
  /\ lastReq.path # <<>>
  /\ Head(lastReq.path) \notin executors[lastConn].globals

\* C37 as stated: a path whose first name was not imported on the receiving
\* connection yields an error response and no id.
C37_UnimportedNameFaults ==
  UnimportedPath => (IsError(lastResp) /\ "obj_id" \notin DOMAIN lastResp)

\* C37: a getattr or call without an obj_id resolves its path against the
\* namespace of the receiving connection only: a name that is not a builtin
\* and was not imported by an import_module on that connection yields an
\* error response and no id, even if another connection imported it.
C37_UnboundNameFaults ==
  (UnimportedPath /\ Head(lastReq.path) \notin Builtins) =>
    /\ IsError(lastResp)
    /\ lastExc = "NameError"
    /\ "obj_id" \notin DOMAIN lastResp

\* getattr of os.sep by path on a connection that has not imported os, while
\* the other connection has: a NameError.
C37_Witness ==
  /\ UnimportedPath
  /\ lastReq.path = <<"os">>
  /\ IsError(lastResp)
  /\ \E c \in DOMAIN executors :
       c # lastConn /\ "os" \in executors[c].globals

\* w is v as the wire carries it: a list in the place of every tuple, a
\* reference marker in the place of every RPCProxy, a slice marker in the
\* place of every slice, and nothing else changed.
RECURSIVE Arrived(_, _)
Arrived(v, w) ==
  CASE Tag(v) \in {"RPCProxy", "slice"} -> Marked(v, w)
    [] Tag(v) \in {"list", "tuple"} ->
         /\ Tag(w) = "list"
         /\ Len(w[2]) = Len(v[2])
         /\ \A i \in DOMAIN v[2] : Arrived(v[2][i], w[2][i])
    [] Tag(v) \in {"map", "kmap"} ->
         /\ Tag(w) = Tag(v)
         /\ Len(w[2]) = Len(v[2])
         /\ \A i \in DOMAIN v[2] :
              w[2][i][1] = v[2][i][1] /\ Arrived(v[2][i][2], w[2][i][2])
    [] OTHER -> w = v

\* C32 as stated: deserialize(serialize(t)) for a tuple t is the list of
\* the elements of t, in their order.
C32_TupleComesBackAsList ==
  (Tag(plain) = "tuple" /\ results # <<>>) => results[1] = ListV(plain[2])

\* C32: deserialize(serialize(t)) for a tuple t is not a tuple but a list of
\* the same length; its i-th element is the i-th element of t when that
\* holds no tuple, proxy or slice, and otherwise the i-th element of t with
\* every tuple in it turned into a list and every proxy or slice into its
\* marker.
C32_TupleComesBackAsListOfArrived ==
  (Tag(plain) = "tuple" /\ results # <<>>)
  => /\ Tag(results[1]) = "list"
     /\ Len(results[1][2]) = Len(plain[2])
     /\ \A i \in DOMAIN plain[2] :
          /\ Arrived(plain[2][i], results[1][2][i])
          /\ (Built(plain[2][i]) /\ ~HasTuple(plain[2][i]))
               => results[1][2][i] = plain[2][i]

\* A tuple of a tuple and an integer has come back as a list of a list and
\* the integer.
C32_Witness ==
  /\ plain = TupleV(<<TupleV(<<IntV(0)>>), IntV(0)>>)
  /\ results # <<>>
  /\ results[1] = ListV(<<ListV(<<IntV(0)>>), IntV(0)>>)

\* The caller's patch_module(name) has ended in the RemoteException made of
\* the server's error response.
PatchFailed ==
  /\ pc = "idle"
  /\ op.kind = "import"
  /\ returned[1] = "raise"
  /\ returned[2] = "RemoteException"

\* C38: the step in which patch_module(name) raises for an error response
\* leaves sys.modules and the record of originals as they were; name is not
\* in the record afterwards, and an unpatch_all that follows leaves the
\* entry of sys.modules under name as it is: present or absent as before,
\* and bound to the same module.
C38_FailedPatchChangesNothing ==
  /\ [][(pc = "waiting" /\ op.kind = "import" /\ PatchFailed') =>
          /\ sys_modules' = sys_modules
          /\ original_modules' = original_modules]_vars
  /\ [](PatchFailed => op.path \notin DOMAIN original_modules)
  /\ [][(PatchFailed /\ op'.kind = "unpatch_all") =>
          /\ (op.path \in DOMAIN sys_modules')
               = (op.path \in DOMAIN sys_modules)
          /\ op.path \in DOMAIN sys_modules =>
               sys_modules'[op.path] = sys_modules[op.path]]_vars

\* The caller's program had imported clientlib; patch_module("clientlib")
\* has failed, the server having no such module, after colorsys was
\* patched; unpatch_all has then removed colorsys and left clientlib bound
\* to the client's module.
C38_Witness ==
  /\ <<"clientlib">> \in preloaded
  /\ <<"clientlib">> \in DOMAIN sys_modules
  /\ op.kind = "unpatch_all"
  /\ ReqType(lastReq) = "import_module"
  /\ lastReq.module = <<"clientlib">>
  /\ IsError(lastResp)
  /\ Len(proxies) = 1
  /\ proxies[1].path = <<"colorsys">>
  /\ <<"colorsys">> \notin DOMAIN sys_modules
  /\ sys_modules[<<"clientlib">>] = Mod("clientlib")
  /\ original_modules = <<>>

\* The caller's Connection puts a frame on the wire in this step.
FrameSent == Len(wire') = Len(wire) + 1

\* C39: a frame a Connection sends carries str(request_id) as its id and
\* the send advances request_id by exactly one; request_id changes in no
\* other way, the first frame carries "0", and the ids of the frames the
\* server has read and of those still on the wire are pairwise different,
\* each below request_id.
C39_IdsCountUp ==
  /\ [][FrameSent =>
          /\ wire'[Len(wire')].id = PyStr(request_id)
          /\ request_id = 0 => wire'[Len(wire')].id = "0"
          /\ request_id' = request_id + 1]_vars
  /\ [][request_id' # request_id =>
          (request_id' = request_id + 1 /\ op'.id = request_id)]_vars
  /\ [](request_id = 0 => (wire = <<>> /\ handledIds = <<>>))
  /\ [](\A i, j \in DOMAIN wire : i # j => wire[i].id # wire[j].id)
  /\ [](\A i \in DOMAIN wire :
          /\ wire[i].id \in {PyStr(n) : n \in 0 .. request_id - 1}
          /\ \A j \in DOMAIN handledIds : PyStr(handledIds[j]) # wire[i].id)
  /\ [](\A i, j \in DOMAIN handledIds : i # j => handledIds[i] # handledIds[j])

\* The fourth frame of the Connection is on the wire, carrying "3", after
\* the server has read the frames "0", "1" and "2".
C39_Witness ==
  /\ request_id = 4
  /\ Len(wire) = 1
  /\ wire[1].id = "3"
  /\ handledIds = <<0, 1, 2>>

\* C36: a request that has reached the server of an open connection leads
\* to its response being on the way back, unless the connection ends
\* first; the server sends a frame only in a step in which it takes a
\* request off the wire, one frame per request, and the frame is the
\* response handle_message returned for that request.
C36_EveryRequestAnsweredOnce ==
  /\ \A n \in 0 .. MaxSends - 1 :
       (wire # <<>> /\ Head(wire).id = PyStr(n))
         ~> \/ ~LinkUp(conn[ClientConn])
            \/ back # <<>> /\ Head(back).id = n
  /\ [][back' # back /\ Len(back') >= Len(back) =>
          /\ conn[ClientConn] = "open"
          /\ wire # <<>>
          /\ wire' = Tail(wire)
          /\ lastReq' = Head(wire)
          /\ back' = Append(back, [resp |-> WireResponse(lastResp'),
                                   id |-> IdNumber(Head(wire).id)])]_vars
  /\ [](Len(back) <= 1)
  /\ [](\A i \in DOMAIN back :
          /\ handledIds # <<>>
          /\ back[i].id = handledIds[Len(handledIds)])

\* The response to the second request of the connection is on its way back
\* to the caller waiting for it.
C36_Witness ==
  /\ conn[ClientConn] = "open"
  /\ pc = "waiting"
  /\ wire = <<>>
  /\ Len(back) = 1
  /\ back[1].id = 1
  /\ op.id = 1
  /\ handledIds = <<0, 1>>

\* The latest operation was materialize of an object that is not a proxy,
\* or is_proxy of any object.
LocalInspection ==
  \/ op.kind = "is_proxy"
  \/ op.kind = "materialize" /\ op.arg[1] # "proxy"

\* C31: materialize(x) of an x that is not an RPCProxy returns x itself,
\* and is_proxy(x) returns True when x is an RPCProxy and False when it is
\* anything else; neither sends a request: the step puts no frame on the
\* wire, leaves request_id, the proxies and the server as they were, and
\* the caller is not left waiting.
C31_LocalInspection ==
  /\ []((op.kind = "materialize" /\ op.arg[1] # "proxy") =>
          returned = <<"value", op.arg>>)
  /\ [](op.kind = "is_proxy" =>
          returned = <<"value", BoolV(op.arg \in
                          {<<"proxy", i>> : i \in DOMAIN proxies})>>)
  /\ [](LocalInspection => (pc = "idle" /\ opSent = <<>> /\ op.id = -1))
  /\ [][(LocalInspection' /\ (op' # op \/ returned' # returned)) =>
          /\ wire' = wire /\ back' = back
          /\ request_id' = request_id
          /\ proxies' = proxies
          /\ UNCHANGED serverVars]_vars

\* With a proxy at hand, a list holding a reference to a remote object has
\* been materialized: it came back as it is, and one request has been sent
\* so far, the import.
C31_Witness ==
  /\ op.kind = "materialize"
  /\ op.arg = ListV(<<Proxy(0)>>)
  /\ returned = <<"value", ListV(<<Proxy(0)>>)>>
  /\ Len(proxies) = 1
  /\ request_id = 1

====
